---- MODULE Spec2Model ----
(***************************************************************************)
(* A model of the wsep server core (server.go: Serve, createSession,       *)
(* Dispose, sendPID, sendExitCode, copyWithHeader).                        *)
(*                                                                         *)
(* Each transport c runs one Serve call.  A Serve call reads client        *)
(* messages, starts at most one process, and launches two output copiers   *)
(* and a waiter.  Reconnectable sessions live in the package-level map     *)
(* `sessions`; each owns a screen process, a ready channel and an          *)
(* inactivity timer.  Time is discrete; one tick is half a session         *)
(* timeout, which is the heartbeat interval.                               *)
(*                                                                         *)
(* The second part models one Session object of session.go: its state      *)
(* machine, its lifecycle, exit-watcher and close-handler goroutines, its  *)
(* timer, and the Attach calls with their heartbeat goroutines.            *)
(***************************************************************************)
EXTENDS Integers, Sequences, FiniteSets, TLC

\* ----------------------------------------------------------------- bounds
\* Number of transports (each runs one Serve call).
NConn == 2
\* Client messages a Serve call reads before the client goes quiet.
MaxMsgs == 2
\* Output frames a copier forwards per stream.
MaxOut == 1
\* options.SessionTimeout, in clock ticks.
SessionTimeout == 2
\* The start-up timeout of session.go:93 (30 seconds), in clock ticks.
StartupTimeout == 1
\* Longest frame header and longest frame body, in bytes.
MaxHeader == 2
MaxBody == 2
\* Input lengths of remoteStdin.Write: within StdinSlack of a multiple (up
\* to StdinChunks) of the frame and body limits.
StdinSlack == 2
StdinChunks == 2
\* Bytes written to a process's Stdin() before the writer goes quiet.
MaxStdin == 6

\* Frames in flight to one client, and frames of no stream sent to it.
MaxIn == 2
MaxForeign == 1
\* The size of the replay ring buffer (64 * 1024 in localexec_unix.go:203),
\* the longest single write to it and the most bytes written to it.
RingSize == 3
MaxChunk == 4
MaxRing == 6

Conns == 1..NConn
\* A transport creates at most one session, so NConn session objects suffice.
SessIdx == 1..NConn
\* The session ids clients use; "" is the absent id.
Ids == {"a"}
\* time.NewTicker(options.SessionTimeout / 2)
HeartbeatInterval == SessionTimeout \div 2

\* session.go:19-30  the states of a Session.
StateStarting == 0
StateReady == 1
StateClosing == 2
StateDone == 3

VARIABLES
    hasScreen,  \* whether exec.LookPath("screen") succeeds
    conn,       \* per transport: the state of its Serve call and goroutines
    frames,     \* per transport: the server frames written to it, in order
    sess,       \* the session objects, in allocation order
    nsess,      \* number of session objects allocated
    sessions,   \* the package-level map: id -> session object (0: absent)
    npid,       \* number of pids handed out by execer.Start
    crashed     \* a Dispose call dereferenced a nil timer

\* The state of one Session object of session.go.
VARIABLES
    state,      \* s.state
    error,      \* s.error ("nil": no error)
    timer,      \* s.timer
    process,    \* the screen process: "none", "running" or "exited"
    ctxDone,    \* lifecycle's ctx is cancelled
    lifecycle,  \* position of the lifecycle goroutine
    closer,     \* position of the close handler goroutine
    attach,     \* per transport: position of its Attach call and heartbeat
    idle,       \* clock ticks since the session was last Ready-ed or attached
    cause,      \* which call moved the session to Closing or Done first
    closeCall   \* the owner's call of s.Close(): its position and the state it found

serverVars == <<hasScreen, conn, frames, sess, nsess, sessions, npid, crashed>>

sessionVars ==
    <<state, error, timer, process, ctxDone, lifecycle, closer, attach, idle, cause,
      closeCall>>

\* One frame passing through internal/proto: written with a header by
\* headerWriter.Write and split again by SplitMessage.
VARIABLES
    sent,       \* the header and body given to the writer
    wire,       \* the message the writer handed to the underlying writer
    got         \* what SplitMessage returned for the message

protoVars == <<sent, wire, got>>

\* One remoteStdin of client.go.
VARIABLES
    rstdin,     \* the running Write call: its input length, offset and count
    stdinWire   \* the frames the call has written to the connection

clientVars == <<rstdin, stdinWire>>

\* One process returned by an Execer's Start, seen from its Stdin().
VARIABLES
    started,    \* the command and the writer Start installed as Stdin()
    reached,    \* number of bytes that reached the process's standard input
    writeErr,   \* the result of the last Write to Stdin()
    winsize     \* the pty's window size and the result of the last Resize

execVars == <<started, reached, writeErr, winsize>>

\* One remote process and its three byte streams: the client's remoteStdin
\* and listen loop (client.go), the connection, Serve's read loop and
\* copiers (server.go), and the process.
VARIABLES
    cn,         \* number of bytes the client has written to Stdin()
    closeAt,    \* cn when the client closed Stdin() (-1: not closed)
    c2s,        \* client messages in flight, oldest first
    pin,        \* the bytes delivered to the process's standard input
    pinClosed,  \* the process's standard input is closed
    serveRet,   \* Serve's read loop has returned an error
    pn,         \* per stream: number of bytes the process has written
    pr,         \* per stream: number of bytes the copier has read
    s2c,        \* server messages in flight, oldest first
    cread       \* per stream: the bytes written to the client's pipe

streamVars == <<cn, closeAt, c2s, pin, pinClosed, serveRet, pn, pr, s2c, cread>>

\* One remoteProcess of the client: its Start, its listen goroutine, its
\* pipes, Wait and Close, and the server and process behind the transport.
VARIABLES
    rp,         \* the remoteProcess and the positions of the calls on it
    rconn,      \* server frames in flight to the client, oldest first
    rsrv,       \* the server side: the process's output and exit, the copiers
    rout        \* per stream: the bytes the caller has read from the pipe

remoteVars == <<rp, rconn, rsrv, rout>>

\* One CombinedOutput call and the process it runs.
VARIABLES
    comb,       \* the call, its process and its two copy goroutines
    cbuf        \* the shared buffer: the bytes copied so far, with their stream

combinedVars == <<comb, cbuf>>

\* The replay ring buffer of one process.
VARIABLES
    ring,       \* the circbuf.Buffer: its data, write cursor and byte count
    rhist       \* every byte written to the ring buffer, oldest first

ringVars == <<ring, rhist>>

\* The goroutine Attach launches to abort its heartbeat when the session
\* closes, inside waitForStateOrContext, and the context Attach derived.
VARIABLES
    watch       \* per transport: the waiter on cond, its waker, the context

waitVars == <<watch>>

utilVars == <<combinedVars, ringVars, waitVars>>

nonServerVars ==
    <<sessionVars, protoVars, clientVars, execVars, streamVars, remoteVars, utilVars>>

\* Everything outside the Session object.
nonSessionObjVars ==
    <<serverVars, protoVars, clientVars, execVars, streamVars, remoteVars, utilVars>>

\* Everything the lifecycle, timer and Attach steps of a Session leave alone.
nonSessionVars == <<nonSessionObjVars, closeCall>>

nonProtoVars ==
    <<serverVars, sessionVars, clientVars, execVars, streamVars, remoteVars, utilVars>>

nonClientVars ==
    <<serverVars, sessionVars, protoVars, execVars, streamVars, remoteVars, utilVars>>

nonExecVars ==
    <<serverVars, sessionVars, protoVars, clientVars, streamVars, remoteVars, utilVars>>

nonStreamVars ==
    <<serverVars, sessionVars, protoVars, clientVars, execVars, remoteVars, utilVars>>

nonRemoteVars ==
    <<serverVars, sessionVars, protoVars, clientVars, execVars, streamVars, utilVars>>

nonCombinedVars ==
    <<serverVars, sessionVars, protoVars, clientVars, execVars, streamVars, remoteVars,
      ringVars, waitVars>>

nonRingVars ==
    <<serverVars, sessionVars, protoVars, clientVars, execVars, streamVars, remoteVars,
      combinedVars, waitVars>>

nonWaitVars ==
    <<serverVars, sessionVars, protoVars, clientVars, execVars, streamVars, remoteVars,
      combinedVars, ringVars>>

vars ==
    <<serverVars, sessionVars, protoVars, clientVars, execVars, streamVars, remoteVars,
      utilVars>>

\* ------------------------------------------------------------ client input
MsgTypes == {"start", "stdin", "close_stdin", "resize", "other", "none", "malformed"}

\* A client message.  type "none" is a header without a type field, "other"
\* an unknown type, "malformed" a header that is not JSON.  The remaining
\* fields are those of a start header.
StartMsgs ==
    [type : {"start"}, tty : BOOLEAN, id : Ids \cup {""}, rows : {0, 1}, cols : {0, 1}]

OtherMsgs ==
    [type : MsgTypes \ {"start"}, tty : {FALSE}, id : {""}, rows : {0}, cols : {0}]

Msgs == StartMsgs \cup OtherMsgs

\* ------------------------------------------------------------------ frames
\* internal/proto/protocol.go:14  const delimiter = '\n'
delimiter == 10

\* The bytes used: the delimiter and two others.
Bytes == {delimiter, 97, 98}

\* Byte strings of length at most n over S.
BSeq(S, n) == UNION {[1..k -> S] : k \in 0..n}

NoFrame == [header |-> <<>>, body |-> <<>>, nilBody |-> TRUE, set |-> FALSE]

\* Mutant: bytes.LastIndex instead of the first occurrence.
LastIndexRune(b, r) ==
    IF \E i \in 1..Len(b) : b[i] = r
        THEN CHOOSE i \in 1..Len(b) : b[i] = r /\ \A j \in (i + 1)..Len(b) : b[j] # r
        ELSE 0

\* bytes.IndexRune(b, r): the position of the first r in b, counted from 1;
\* 0 when there is none (Go: -1).
IndexRune(b, r) ==
    IF \E i \in 1..Len(b) : b[i] = r
        THEN CHOOSE i \in 1..Len(b) : b[i] = r /\ \A j \in 1..(i - 1) : b[j] # r
        ELSE 0

\* internal/proto/protocol.go:18-28  SplitMessage.  The body is nil when
\* there is no delimiter or nothing after it.
SplitMessage(b) ==
    LET ix == IndexRune(b, delimiter) IN
    IF ix = 0
        THEN [header |-> b, body |-> <<>>, nilBody |-> TRUE, set |-> TRUE]
    ELSE IF ix < Len(b)
        THEN [header |-> SubSeq(b, 1, ix - 1), body |-> SubSeq(b, ix + 1, Len(b)),
              nilBody |-> FALSE, set |-> TRUE]
    ELSE [header |-> SubSeq(b, 1, ix - 1), body |-> <<>>, nilBody |-> TRUE, set |-> TRUE]

\* internal/proto/protocol.go:43-44  msg := append(append(h.header, delimiter), b...)
WithHeader(header, b) == (header \o <<delimiter>>) \o b

\* ------------------------------------------------------------ client stdin
\* client.go:208  const maxMessageSize = 64000
maxMessageSize == 64000

\* client.go:307-314  json.Marshal(proto.Header{Type: proto.TypeStdin}):
\* the bytes of {"type":"stdin"}.
stdinHeaderByt ==
    <<123, 34, 116, 121, 112, 101, 34, 58, 34, 115, 116, 100, 105, 110, 34, 125>>

\* client.go:317  maxBodySize := maxMessageSize - len(headerByt) - 1
maxBodySize == maxMessageSize - Len(stdinHeaderByt) - 1

\* The input lengths tried.
StdinLens ==
    {n \in {k[1] * maxBodySize + k[2] * maxMessageSize + k[3] :
                k \in (0..StdinChunks) \X (0..1) \X ((0 - StdinSlack)..StdinSlack)} :
        n >= 0}

NoWrite == [pc |-> "idle", len |-> 0, off |-> 0, nn |-> 0, err |-> FALSE]

\* A frame written by stdinWriter.Write(b[from:to]); byte i of the body is
\* byte from + i of the input.
StdinFrame(from, to) == [header |-> stdinHeaderByt, from |-> from, to |-> to]

\* Bytes of a frame on the wire: header, delimiter, body.
FrameSize(f) == Len(f.header) + 1 + (f.to - f.from)

\* client.go:319  for len(b) > maxMessageSize
MoreThanFrame(rem) == rem > maxMessageSize

\* Mutant: the input is advanced by a whole message size.
NextOffsetMessage(off) == off + maxMessageSize

\* client.go:325  b = b[maxBodySize:]
NextOffset(off) == off + maxBodySize

\* ----------------------------------------------------------- process stdin
NotStarted ==
    [on |-> FALSE, execer |-> "", tty |-> FALSE, stdin |-> FALSE, writer |-> "",
     closed |-> FALSE]

\* localexec_unix.go:66-94  the writer LocalExecer.Start installs: the pty
\* for a TTY, else the stdin pipe when c.Stdin, else disabledStdinWriter.
LocalStdin(tty, stdin) ==
    IF tty THEN "tty" ELSE IF stdin THEN "pipe" ELSE "disabled"

\* client.go:259-266, 417-422  the writer of a remote process: remoteStdin
\* when c.Stdin, else disabledStdinWriter.
RemoteStdin(tty, stdin) == IF stdin THEN "remote" ELSE "disabled"

\* No Resize call made yet; a pty starts with a window of 0 by 0.
\* Row and column counts given to Resize.
WinSizes == {0, 1, 2}

NoResize == [rows |-> 0, cols |-> 0, res |-> "none"]

\* What a call on the nil pty of a process without one can do: the nil
\* *os.File gives pty.Setsize an invalid descriptor and the ioctl fails
\* (localexec_unix.go:164-167); the nil *headless.Terminal is dereferenced
\* by SetSize (localexec_unix.go:41).
NilPtyOutcomes == {"error", "panic"}

\* localexec_unix.go:37-42, 160-168  localProcess.Resize: the window after
\* the call and its result.  nilOut is the outcome of the call on a nil pty.
LocalResize(w, tty, rows, cols, nilOut) ==
    IF ~tty /\ rows # 0 /\ cols # 0
        THEN [w EXCEPT !.res = "nil"]
    ELSE IF ~tty
        THEN [w EXCEPT !.res = nilOut]
    ELSE [rows |-> rows, cols |-> cols, res |-> "nil"]

\* ----------------------------------------------------------------- streams
Streams == {"stdout", "stderr"}

\* The bytes the client writes to Stdin(), in order ("a", LF, "b"), and the
\* bytes the process writes to each output stream ("o", LF and "e", LF).
InStream == <<97, delimiter, 98>>

OutStream(st) == IF st = "stdout" THEN <<111, delimiter>> ELSE <<101, delimiter>>

\* json.Marshal(proto.Header{Type: t}) for the message types: the bytes of
\* {"type":"<t>"}.
HeaderByt(t) ==
    LET open  == <<123, 34, 116, 121, 112, 101, 34, 58, 34>>
        close == <<34, 125>>
        name  == CASE t = "stdin" -> <<115, 116, 100, 105, 110>>
                   [] t = "close_stdin" ->
                          <<99, 108, 111, 115, 101, 95, 115, 116, 100, 105, 110>>
                   [] t = "stdout" -> <<115, 116, 100, 111, 117, 116>>
                   [] t = "stderr" -> <<115, 116, 100, 101, 114, 114>>
                   [] OTHER -> <<>>
    IN  (open \o name) \o close

\* json.Unmarshal(headerByt, &header); header.Type
HeaderType(h) ==
    IF \E t \in {"stdin", "close_stdin", "stdout", "stderr"} : HeaderByt(t) = h
        THEN CHOOSE t \in {"stdin", "close_stdin", "stdout", "stderr"} : HeaderByt(t) = h
        ELSE ""

\* Mutant: the body is written in front of what was delivered before.
StdinDeliverFirst(old, body) == body \o old

\* server.go:170  io.Copy(process.Stdin(), bytes.NewReader(bodyByt))
StdinDeliver(old, body) == old \o body

\* Mutant: every output body goes to the stdout pipe.
ListenPipeStdout(t) == "stdout"

\* client.go:381-394  the pipe listen writes a body to, by header type.
ListenPipe(t) == t

\* ------------------------------------------------------------------ timers
NilTimer == [st |-> "nil", rem |-> 0]

\* time.AfterFunc(d, f) and Timer.Reset(d): (re)arm the timer.
TimerArm(d) == [st |-> "armed", rem |-> d]

\* Timer.Stop(): an armed timer no longer fires.
TimerStop(t) == IF t.st = "armed" THEN [t EXCEPT !.st = "stopped"] ELSE t

\* ----------------------------------------------------------------- records
NoSess ==
    [used |-> FALSE, id |-> "", pid |-> 0, alive |-> FALSE, ctxDone |-> FALSE,
     rdy |-> "none", closed |-> FALSE, probe |-> FALSE, timer |-> NilTimer,
     term |-> FALSE, cbwait |-> FALSE, creator |-> 0, failed |-> FALSE]

\* The zero value of Serve's command before a start header is decoded.
NoCmd == [tty |-> FALSE, id |-> "", rows |-> 0, cols |-> 0]

\* server.go:104-110  the command decoded from a start header.
CmdOf(m) == [tty |-> m.tty, id |-> m.id, rows |-> m.rows, cols |-> m.cols]

\* What process.Wait() returned: nil, an ExitError with a code, or another
\* error with a message; NoWait before Wait has returned.
NoWait == [kind |-> "none", code |-> 0, msg |-> ""]

WaitResults ==
    {[kind |-> "nil", code |-> 0, msg |-> ""]}
        \cup [kind : {"exit"}, code : {-1, 1, 2}, msg : {""}]
        \cup {[kind |-> "other", code |-> 0, msg |-> "wait: no child processes"]}

\* exec.go:16-18  ExitError.Error(), and Error() of any other error.
ErrorString(err) ==
    CASE err.kind = "exit" /\ err.code = 1 -> "process exited with code 1"
      [] err.kind = "exit" /\ err.code = 2 -> "process exited with code 2"
      [] err.kind = "exit" -> "process exited with code -1"
      [] OTHER -> err.msg

\* Mutant: the exit code is not taken from the ExitError.
ExitCodeZero(err) == 0

\* server.go:186, 191-193  exitCode is 0 unless err is an ExitError.
ExitCodeOf(err) == IF err.kind = "exit" THEN err.code ELSE 0

\* server.go:185-204  sendExitCode writes one exit_code frame with the exit
\* code and the error string of what process.Wait() returned.
ExitFrames(pid, err) ==
    <<[t |-> "exit_code", v |-> pid, code |-> ExitCodeOf(err),
       error |-> IF err.kind = "nil" THEN "" ELSE ErrorString(err)]>>

\* s.Close() has not been called.  found is the state setState saw.
NoClose == [pc |-> "idle", found |-> StateStarting]

\* session.go:247-252  before Attach has launched its goroutine: the
\* derived context is live, nothing waits on cond.  seen is the state the
\* waiter last compared, notified whether a Broadcast reached it in Wait.
NoWatch ==
    [pc |-> "off", waker |-> "off", ctxDone |-> FALSE, seen |-> StateStarting,
     notified |-> FALSE]

InitConn ==
    [pc |-> "read", ret |-> "", open |-> TRUE, hdr |-> "", nread |-> 0,
     cmd |-> NoCmd, proc |-> 0, palive |-> FALSE, src |-> 0, ptty |-> FALSE,
     path |-> "none", sid |-> 0, hb |-> FALSE, hbRem |-> 0,
     cout |-> "off", cerr |-> "off", waiter |-> "off",
     spawns |-> 0, ops |-> 0, why |-> "", werr |-> NoWait, cancelled |-> FALSE]

\* ------------------------------------------------------------ replay buffer
\* localexec_unix.go:203  circbuf.NewBuffer(size): size zero bytes, nothing
\* written.
NewBuffer ==
    [data |-> [i \in 0..(RingSize - 1) |-> 0], writeCursor |-> 0, written |-> 0]

\* localexec_unix.go:207  the TeeReader's write to the ring buffer,
\* circbuf.Buffer.Write: only the last size bytes of buf are kept, they are
\* copied in at the write cursor, wrapping round, and the cursor advances.
RingWrite(r, buf) ==
    LET n    == Len(buf)
        kept == IF n > RingSize THEN SubSeq(buf, n - RingSize + 1, n) ELSE buf
    IN  [data |-> [i \in 0..(RingSize - 1) |->
                    IF \E j \in 1..Len(kept) : (r.writeCursor + j - 1) % RingSize = i
                        THEN kept[CHOOSE j \in 1..Len(kept) :
                                      (r.writeCursor + j - 1) % RingSize = i]
                        ELSE r.data[i]],
         writeCursor |-> (r.writeCursor + Len(kept)) % RingSize,
         written |-> r.written + n]

\* Mutant: the bytes before the cursor only.
RingBytesNoWrap(r) == [i \in 1..r.writeCursor |-> r.data[i - 1]]

\* localexec_unix.go:153-158  Replay: circbuf.Buffer.Bytes, the data from
\* the oldest byte to the newest.
RingBytes(r) ==
    IF r.written >= RingSize /\ r.writeCursor = 0
        THEN [i \in 1..RingSize |-> r.data[i - 1]]
    ELSE IF r.written > RingSize
        THEN [i \in 1..RingSize |-> r.data[(r.writeCursor + i - 1) % RingSize]]
    ELSE [i \in 1..r.writeCursor |-> r.data[i - 1]]

\* --------------------------------------------------------- CombinedOutput
\* part_012:64-82  the call before it starts its process.  written and taken
\* count, per stream, the bytes the process has written to its pipe and the
\* bytes the copier has read from it; held is the chunk a copier has read
\* and not yet written to the buffer.
NoCall ==
    [pc |-> "call", alive |-> FALSE, werr |-> NoWait,
     written |-> [st \in Streams |-> 0], taken |-> [st \in Streams |-> 0],
     held |-> [st \in Streams |-> <<>>],
     out |-> <<>>, err |-> NoWait]

\* The bytes of stream st in a buffer of tagged bytes.
BytesOf(buf, st) ==
    LET Pick(x) == x.st = st
        sel == SelectSeq(buf, Pick)
    IN  [i \in 1..Len(sel) |-> sel[i].b]

\* ---------------------------------------------------------- remote process
\* A server frame as the client receives it: the type of its JSON header,
\* the body after the delimiter, and the pid, exit_code and error fields of
\* the header.  Type "other" is a type the client does not know, type
\* "malformed" a header that is not JSON.
PidFrame(pid) == [t |-> "pid", body |-> <<>>, pid |-> pid, code |-> 0, error |-> ""]

StreamFrame(st, body) == [t |-> st, body |-> body, pid |-> 0, code |-> 0, error |-> ""]

\* server.go:185-204  the exit_code frame sendExitCode writes for err.
ExitFrame(err) ==
    LET f == ExitFrames(0, err)[1]
    IN  [t |-> f.t, body |-> <<>>, pid |-> 0, code |-> f.code, error |-> f.error]

OtherFrame == [t |-> "other", body |-> <<>>, pid |-> 0, code |-> 0, error |-> ""]

MalformedFrame == [t |-> "malformed", body |-> <<>>, pid |-> 0, code |-> 0, error |-> ""]

\* conn.Read returned an error instead of a frame.
NoRead == [t |-> "none", body |-> <<>>, pid |-> 0, code |-> 0, error |-> ""]

\* What the server's first answer to a start message can be.
FirstFrames ==
    {PidFrame(1), ExitFrame([kind |-> "nil", code |-> 0, msg |-> ""]),
     StreamFrame("stdout", <<111>>), StreamFrame("stdout", <<delimiter>>),
     OtherFrame, MalformedFrame, NoRead}

\* Frames of no stream and no exit that may reach a started client.
ForeignFrames == {OtherFrame, MalformedFrame}

\* The bytes encoding/json skips around a value: space, tab, LF, CR.
Whitespace == {32, 9, delimiter, 13}

\* part_004:64-68  json.Unmarshal(payload, &pidHeader) on the whole payload:
\* it fails when the header is not JSON or when anything but whitespace
\* follows the header object.
PidParse(f) ==
    /\ f.t # "malformed"
    /\ \A i \in 1..Len(f.body) : f.body[i] \in Whitespace

\* part_004:60-68  the outcome of Start for the first frame read: an error,
\* or the pid field of the header (0 when the header has no pid field).
StartResult(f) ==
    IF f.t = "none" THEN [ok |-> FALSE, pid |-> 0]
    ELSE IF ~PidParse(f) THEN [ok |-> FALSE, pid |-> 0]
    ELSE [ok |-> TRUE, pid |-> f.pid]

\* part_004:80-92  the remoteProcess before Start.  pend and pst are the
\* body being written to a pipe by writeCtx and the pipe's stream; dropped
\* counts the bytes of a body still unread when the pipe was closed.
NoRemote ==
    [start |-> "no", pid |-> 0, cancelled |-> FALSE, lpc |-> "idle",
     pend |-> <<>>, pst |-> "", dropped |-> 0, ignored |-> 0,
     readErr |-> "nil", exitSet |-> FALSE, exitCode |-> 0, done |-> FALSE,
     wait |-> "no", waitRes |-> NoWait, close |-> "no"]

\* The server side before the start message: no process.
NoServer ==
    [pid |-> 0, first |-> "", pn |-> [st \in Streams |-> 0],
     pr |-> [st \in Streams |-> 0], werr |-> NoWait, exitSent |-> FALSE,
     foreign |-> 0, eof |-> FALSE]

\* part_004:214-226  listen returns: the deferred function closes both
\* pipes and the connection, then closes r.done.
ListenReturn(r) ==
    [r EXCEPT !.lpc = "done", !.done = TRUE, !.pend = <<>>,
              !.dropped = Len(r.pend)]

\* Mutant: the context's error is not recorded.
ListenCtxDoneUnset(r) == ListenReturn(r)

\* part_004:228, 268-269  the loop ends because ctx is done; ctx.Err() is
\* recorded as the read error.
ListenCtxDone(r) == ListenReturn([r EXCEPT !.readErr = "context canceled"])

\* Mutant: the write to the pipe does not watch the context
\* (io.CopyBuffer(r.stdout.w, ...) directly in listen).
WriteCtxBlocks(cancelled) == FALSE

\* part_004:199-210  writeCtx returns ctx.Err() once ctx is done, whether
\* or not the body has been read from the pipe.
WriteCtxAborts(cancelled) == cancelled

\* part_004:310-322  what Wait returns once r.done is closed; "panic" is
\* the dereference of a nil r.exitCode.
WaitResult(r) ==
    IF r.readErr # "nil" THEN [kind |-> "other", code |-> 0, msg |-> r.readErr]
    ELSE IF ~r.exitSet THEN [kind |-> "panic", code |-> 0, msg |-> ""]
    ELSE IF r.exitCode # 0 THEN [kind |-> "exit", code |-> r.exitCode, msg |-> ""]
    ELSE [kind |-> "nil", code |-> 0, msg |-> ""]

Init ==
    /\ hasScreen \in BOOLEAN
    /\ conn = [c \in Conns |-> InitConn]
    /\ frames = [c \in Conns |-> <<>>]
    /\ sess = [s \in SessIdx |-> NoSess]
    /\ nsess = 0
    /\ sessions = [i \in Ids \cup {""} |-> 0]
    /\ npid = 0
    /\ crashed = FALSE
    \* session.go:60-73  NewSession
    /\ state = StateStarting
    /\ error = "nil"
    /\ timer = NilTimer
    /\ process = "none"
    /\ ctxDone = FALSE
    /\ lifecycle = "start"
    /\ closer = "off"
    /\ attach = [c \in Conns |-> [pc |-> "idle", hbRem |-> 0, err |-> "nil"]]
    /\ idle = 0
    /\ cause = ""
    /\ closeCall = NoClose
    /\ watch = [c \in Conns |-> NoWatch]
    \* no frame written yet
    /\ sent = NoFrame
    /\ wire = <<>>
    /\ got = NoFrame
    \* a remote process just started: nothing written, nothing in flight
    /\ cn = 0
    /\ closeAt = -1
    /\ c2s = <<>>
    /\ pin = <<>>
    /\ pinClosed = FALSE
    /\ serveRet = FALSE
    /\ pn = [st \in Streams |-> 0]
    /\ pr = [st \in Streams |-> 0]
    /\ s2c = <<>>
    /\ cread = [st \in Streams |-> <<>>]
    \* no process started yet
    /\ started = NotStarted
    /\ reached = 0
    /\ writeErr = "none"
    /\ winsize = NoResize
    \* no Write call made yet
    /\ rstdin = NoWrite
    /\ stdinWire = <<>>
    \* a client that has not called Start yet
    /\ rp = NoRemote
    /\ rconn = <<>>
    /\ rsrv = NoServer
    /\ rout = [st \in Streams |-> <<>>]
    \* CombinedOutput not called yet
    /\ comb = NoCall
    /\ cbuf = <<>>
    \* an empty ring buffer
    /\ ring = NewBuffer
    /\ rhist = <<>>


\* --------------------------------------------------------- Serve: helpers
\* Transports with a live heartbeat goroutine for session object s.
Live(s) == {c \in Conns : conn[c].hb /\ conn[c].sid = s}

\* A write to wsNetConn succeeds while the client has not closed the
\* transport and Serve has not returned (defer wsNetConn.Close()).
Writable(cr) == cr.open /\ cr.pc # "ret"

\* Mutant: the check for an earlier start is missing.
AlreadyStartedNever(cr) == FALSE

\* server.go:100  if process != nil { return errors.New("command already started") }
AlreadyStarted(cr) == cr.proc # 0

\* Mutant: only a TTY with both rows and cols zero is rejected.
BadSizeBoth(m) == m.tty /\ (m.rows = 0 /\ m.cols = 0)

\* server.go:112-117  a TTY needs non-zero rows and cols.
BadSize(m) == m.tty /\ (m.rows = 0 \/ m.cols = 0)

\* Mutant: every TTY takes the session path, with or without an id.
UsesSessionAnyId(m) == m.tty

\* server.go:120  only TTYs with IDs can be reconnected.
UsesSession(m) == m.tty /\ m.id # ""

\* Mutant: the pid frame is not written.
PidFramesNone(pid) == <<>>

\* server.go:206-213  sendPID writes one pid frame.
PidFrames(pid) == <<[t |-> "pid", v |-> pid]>>

\* server.go:215-226  copyWithHeader frames one chunk read from the process.
OutFrames(st, src) == <<[t |-> st, v |-> src]>>

\* Mutant: the waiter does not wait for the output copiers.
WaiterReadyNoCopiers(cr) ==
    /\ cr.waiter = "wait"
    /\ ~cr.palive

\* server.go:146-152  the waiter sends exit_code after outputgroup.Wait()
\* and process.Wait() have returned.
WaiterReady(cr) ==
    /\ cr.waiter = "wait"
    /\ cr.cout = "done"
    /\ cr.cerr = "done"
    /\ ~cr.palive

\* server.go:400  defer sess.timeout.Reset(options.SessionTimeout)
HeartbeatStop(t) == TimerArm(SessionTimeout)

\* Serve returns r ("nil", "error", or "panic" for a run-time panic) at the
\* return statement named by why.  The deferred cancel() ends the request
\* context, which stops the heartbeat goroutine and kills the process
\* started with it.
Ret(cr, r, why) == [cr EXCEPT !.pc = "ret", !.ret = r, !.why = why, !.hb = FALSE]

\* Mutant: the session is started with the request context, so the end of
\* the request cancels the session.
SessOnReturnCancel(ss, cr) ==
    IF cr.sid # 0 /\ ss[cr.sid].used
        THEN [ss EXCEPT ![cr.sid].ctxDone = TRUE, ![cr.sid].timer = TimerStop(@)]
        ELSE ss

\* The effect of a Serve return on the sessions: only the heartbeat's last
\* reset of the timer.  The session's own context is derived from
\* context.Background() (server.go:282), so nothing else changes.
SessOnReturn(ss, cr) ==
    IF cr.hb
        THEN [ss EXCEPT ![cr.sid].timer = HeartbeatStop(@)]
        ELSE ss

\* server.go:138-152  launch the output copiers and the waiter.
Launch(cr) ==
    [cr EXCEPT !.cout = "run", !.cerr = "run", !.waiter = "wait", !.pc = "read"]

\* server.go:127-152  execer.Start, sendPID, copiers and waiter.  src is the
\* process whose terminal the new process shows (0: its own).
ExecStart(cr, fr, src, tty, ok) ==
    LET pid == npid + 1
        run == [cr EXCEPT !.proc = pid, !.palive = TRUE, !.ptty = tty,
                          !.src = IF src = 0 THEN pid ELSE src,
                          !.spawns = @ + 1]
    IN  IF ~ok
            THEN [cr |-> Ret(cr, "error", "spawn"), fr |-> fr, np |-> npid]
        ELSE IF ~Writable(cr)
            THEN [cr |-> Ret(run, "error", "pid"), fr |-> fr, np |-> pid]
        ELSE [cr |-> Launch(run), fr |-> fr \o PidFrames(pid), np |-> pid]

\* ------------------------------------------------------- Serve: the loop
\* server.go:73-183  one iteration of the read loop on message m.  ok is
\* the outcome of the one fallible call the iteration makes (the file
\* writes of createSession, execer.Start, Resize, the stdin write or close).
ServeRead(c, m, ok) ==
    LET cr0 == conn[c]
        \* json.Unmarshal leaves header.Type alone when the field is absent.
        t   == IF m.type \in {"none", "malformed"} THEN cr0.hdr ELSE m.type
        cr1 == [cr0 EXCEPT !.nread = @ + 1, !.hdr = t]
        res ==
            IF m.type = "malformed"
                THEN [cr |-> Ret(cr1, "error", "malformed"), fr |-> frames[c], np |-> npid]
            ELSE IF t = "start" THEN
                LET cr2 == [cr1 EXCEPT !.cmd = CmdOf(m)] IN
                IF AlreadyStarted(cr1)
                    THEN [cr |-> Ret(cr1, "error", "started"), fr |-> frames[c], np |-> npid]
                ELSE IF BadSize(m)
                    THEN [cr |-> Ret(cr2, "error", "size"), fr |-> frames[c], np |-> npid]
                ELSE IF UsesSession(m) /\ hasScreen THEN
                    \* createSession up to sessions.Load(id)
                    IF ~ok
                        THEN [cr |-> Ret(cr2, "error", "settings"), fr |-> frames[c], np |-> npid]
                    ELSE [cr |-> [cr2 EXCEPT !.path = "session",
                                             !.sid = sessions[m.id],
                                             !.pc = IF sessions[m.id] # 0
                                                        THEN "wait" ELSE "create"],
                          fr |-> frames[c], np |-> npid]
                ELSE ExecStart([cr2 EXCEPT !.path = "direct"],
                               frames[c], 0, m.tty, ok)
            ELSE IF t = "resize" THEN
                IF cr1.proc = 0
                    THEN [cr |-> Ret(cr1, "error", "early"), fr |-> frames[c], np |-> npid]
                ELSE IF ~ok
                    THEN [cr |-> Ret([cr1 EXCEPT !.ops = @ + 1], "error", "op"),
                          fr |-> frames[c], np |-> npid]
                ELSE [cr |-> [cr1 EXCEPT !.ops = @ + 1], fr |-> frames[c], np |-> npid]
            ELSE IF t \in {"stdin", "close_stdin"} THEN
                \* process.Stdin() on the nil interface value panics.
                IF cr1.proc = 0
                    THEN [cr |-> Ret(cr1, "panic", "early"), fr |-> frames[c], np |-> npid]
                ELSE IF ~ok
                    THEN [cr |-> Ret([cr1 EXCEPT !.ops = @ + 1], "error", "op"),
                          fr |-> frames[c], np |-> npid]
                ELSE [cr |-> [cr1 EXCEPT !.ops = @ + 1], fr |-> frames[c], np |-> npid]
            ELSE [cr |-> cr1, fr |-> frames[c], np |-> npid]
    IN  /\ conn[c].pc = "read"
        /\ conn[c].open
        /\ conn[c].nread < MaxMsgs
        /\ conn' = [conn EXCEPT ![c] = res.cr]
        /\ frames' = [frames EXCEPT ![c] = res.fr]
        /\ npid' = res.np
        /\ sess' = IF res.cr.pc = "ret" THEN SessOnReturn(sess, conn[c]) ELSE sess
        /\ UNCHANGED <<nonServerVars, hasScreen, nsess, sessions, crashed>>

\* server.go:77-90  the client closes the transport; c.Read fails and Serve
\* returns nil for a normal closure and the error otherwise.
ClientClose(c, normal) ==
    /\ conn[c].open
    /\ conn[c].pc # "ret"
    /\ conn' = [conn EXCEPT ![c] =
                  IF conn[c].pc = "read"
                      THEN Ret([@ EXCEPT !.open = FALSE],
                               IF normal THEN "nil" ELSE "error", "closed")
                      ELSE [@ EXCEPT !.open = FALSE]]
    /\ sess' = IF conn[c].pc = "read" THEN SessOnReturn(sess, conn[c]) ELSE sess
    /\ UNCHANGED <<nonServerVars, hasScreen, frames, nsess, sessions, npid, crashed>>

\* server.go:55-57, 74-90  the caller cancels the context given to Serve
\* while Serve runs a process of its own or none: a Serve blocked in
\* c.Read(ctx) returns the context's error.
CtxCancel(c) ==
    /\ ~conn[c].cancelled
    /\ conn[c].pc \in {"read", "stdin"}
    /\ conn[c].path \in {"none", "direct"}
    /\ conn' = [conn EXCEPT ![c] =
                  IF conn[c].pc = "read"
                      THEN Ret([@ EXCEPT !.cancelled = TRUE], "error", "cancelled")
                      ELSE [@ EXCEPT !.cancelled = TRUE]]
    /\ UNCHANGED <<nonServerVars, hasScreen, frames, sess, nsess, sessions, npid, crashed>>

\* server.go:77-98, 169-173  Serve reads a stdin message and the write of
\* its body blocks: the process is not reading its standard input and the
\* pipe or pty is full.
ServeStdinBlock(c) ==
    /\ conn[c].pc = "read"
    /\ conn[c].open
    /\ conn[c].nread < MaxMsgs
    /\ conn[c].path = "direct"
    /\ conn[c].palive
    /\ conn' = [conn EXCEPT ![c].pc = "stdin", ![c].nread = @ + 1,
                            ![c].hdr = "stdin", ![c].ops = @ + 1]
    /\ UNCHANGED <<nonServerVars, hasScreen, frames, sess, nsess, sessions, npid, crashed>>

\* server.go:73-90, 169-173  the blocked write returns: without an error
\* (ok) when the live process has read the bytes, with one otherwise.
\* Serve returns the write's error, or goes round its loop, where a done
\* context or a closed transport makes it return.
StdinUnblock(c, ok) ==
    /\ conn[c].pc = "stdin"
    /\ ok => conn[c].palive
    /\ conn' = [conn EXCEPT ![c] =
                  IF ~ok THEN Ret(@, "error", "op")
                  ELSE IF conn[c].cancelled THEN Ret(@, "error", "cancelled")
                  ELSE IF ~conn[c].open THEN Ret(@, "error", "closed")
                  ELSE [@ EXCEPT !.pc = "read"]]
    /\ UNCHANGED <<nonServerVars, hasScreen, frames, sess, nsess, sessions, npid, crashed>>

\* ------------------------------------------- Serve: copiers and waiter
\* Number of frames of type st written to transport c.
Count(fr, st) == Cardinality({i \in 1..Len(fr) : fr[i].t = st})

\* server.go:139-144, 215-226  a copier reads a chunk of the process's
\* output and writes it as one frame; a failed write ends the copier.
CopyFrame(c, st) ==
    LET f == IF st = "stdout" THEN "cout" ELSE "cerr" IN
    /\ conn[c][f] = "run"
    /\ st = "stderr" => ~conn[c].ptty    \* a pty's stderr is an empty reader
    /\ Count(frames[c], st) < MaxOut
    /\ IF Writable(conn[c])
          THEN /\ frames' = [frames EXCEPT ![c] = @ \o OutFrames(st, conn[c].src)]
               /\ UNCHANGED conn
          ELSE /\ conn' = [conn EXCEPT ![c][f] = "done"]
               /\ UNCHANGED frames
    /\ UNCHANGED <<nonServerVars, hasScreen, sess, nsess, sessions, npid, crashed>>

\* The copier's read reaches end-of-stream: the process has exited, or the
\* stream is the empty stderr of a pty.
CopyEOF(c, st) ==
    LET f == IF st = "stdout" THEN "cout" ELSE "cerr" IN
    /\ conn[c][f] = "run"
    /\ ~conn[c].palive \/ (st = "stderr" /\ conn[c].ptty)
    /\ conn' = [conn EXCEPT ![c][f] = "done"]
    /\ UNCHANGED <<nonServerVars, hasScreen, frames, sess, nsess, sessions, npid, crashed>>

\* server.go:146-152  the waiter goroutine: process.Wait() returns err and
\* sendExitCode reports it.
WaitExit(c, err) ==
    /\ WaiterReady(conn[c])
    /\ conn' = [conn EXCEPT ![c].waiter = "done", ![c].werr = err]
    /\ frames' = [frames EXCEPT ![c] =
                    IF Writable(conn[c]) THEN @ \o ExitFrames(conn[c].proc, err) ELSE @]
    /\ UNCHANGED <<nonServerVars, hasScreen, sess, nsess, sessions, npid, crashed>>

\* The process of transport c exits: by itself, because its session ended,
\* or killed by the cancelled request context (exec.CommandContext).
ProcExit(c) ==
    /\ conn[c].palive
    /\ conn' = [conn EXCEPT ![c].palive = FALSE]
    /\ UNCHANGED <<nonServerVars, hasScreen, frames, sess, nsess, sessions, npid, crashed>>

\* localexec_unix.go:176  exec.CommandContext kills the process started
\* with Serve's context once that context is done: cancelled by the caller
\* or by Serve's deferred cancel().
KillOnDone(c) ==
    /\ conn[c].path = "direct"
    /\ conn[c].pc = "ret" \/ conn[c].cancelled
    /\ ProcExit(c)

\* The blocked write fails once the process is gone.
StdinWriteFails(c) ==
    /\ ~conn[c].palive
    /\ StdinUnblock(c, FALSE)

\* ---------------------------------------------------------- createSession
\* Mutant: the map entry is left in place.
MapDeleteNone(m, id) == m

\* server.go:319, 343  sessions.Delete(id)
MapDelete(m, id) == [m EXCEPT ![id] = 0]

\* server.go:282-380  the id was not in the map: store a new session, start
\* screen, arm the timeout and launch the exit watcher and the probe.
CreateSession(c, ok) ==
    LET s   == nsess + 1
        id  == conn[c].cmd.id
        pid == npid + 1
    IN  /\ conn[c].pc = "create"
        /\ nsess' = s
        /\ sessions' = [sessions EXCEPT ![id] = s]
        /\ IF ok
              THEN /\ sess' = [sess EXCEPT ![s] =
                                 [NoSess EXCEPT !.used = TRUE, !.id = id, !.pid = pid,
                                                !.alive = TRUE, !.probe = TRUE,
                                                !.timer = TimerArm(SessionTimeout),
                                                !.creator = c]]
                   /\ npid' = pid
                   /\ conn' = [conn EXCEPT ![c].pc = "wait", ![c].sid = s]
              ELSE \* cancel(); sess.ready <- err; close(sess.ready); return err
                   /\ sess' = [sess EXCEPT ![s] =
                                 [NoSess EXCEPT !.used = TRUE, !.id = id, !.ctxDone = TRUE,
                                                !.rdy = "err", !.closed = TRUE,
                                                !.creator = c, !.failed = TRUE]]
                   /\ npid' = npid
                   /\ conn' = [conn EXCEPT ![c] = Ret([@ EXCEPT !.sid = s], "error", "create")]
        /\ UNCHANGED <<nonServerVars, hasScreen, frames, crashed>>

\* server.go:348-380  the probe goroutine ends.  ok: `screen -X version`
\* succeeded and the channel is closed without a value; otherwise (session
\* gone, 10 s timeout, probe start error) an error is sent first.
Probe(s, ok) ==
    /\ sess[s].probe
    /\ ok => sess[s].alive /\ ~sess[s].ctxDone
    /\ sess' = [sess EXCEPT ![s].probe = FALSE, ![s].closed = TRUE,
                            ![s].rdy = IF ok THEN "none" ELSE "err",
                            ![s].failed = ~ok]
    /\ UNCHANGED <<nonServerVars, hasScreen, conn, frames, nsess, sessions, npid, crashed>>

\* server.go:383-425  receive from sess.ready; on nil reset the timeout,
\* start the heartbeat and return the attach command to Serve.
RecvReady(c) ==
    LET s == conn[c].sid IN
    /\ conn[c].pc = "wait"
    /\ sess[s].rdy = "err" \/ sess[s].closed
    /\ IF sess[s].rdy = "err"
          THEN /\ sess' = [sess EXCEPT ![s].rdy = "none"]
               /\ conn' = [conn EXCEPT ![c] = Ret(@, "error", "ready")]
       ELSE IF sess[s].timer.st = "nil"
          THEN \* sess.timeout.Reset on the nil timer of a session whose
               \* creation failed
               /\ conn' = [conn EXCEPT ![c] = Ret(@, "panic", "timer")]
               /\ UNCHANGED sess
       ELSE /\ conn' = [conn EXCEPT ![c].hb = TRUE, ![c].hbRem = HeartbeatInterval,
                                    ![c].pc = "attach"]
            /\ sess' = [sess EXCEPT ![s].timer = TimerArm(SessionTimeout)]
    /\ UNCHANGED <<nonServerVars, hasScreen, frames, nsess, sessions, npid, crashed>>

\* server.go:127-152  Serve starts the attach command createSession gave
\* it: execer.Start returns, then sendPID, the copiers and the waiter.
AttachStart(c, ok) ==
    LET s   == conn[c].sid
        res == ExecStart(conn[c], frames[c], sess[s].pid, TRUE, ok)
    IN  /\ conn[c].pc = "attach"
        /\ conn' = [conn EXCEPT ![c] = res.cr]
        /\ frames' = [frames EXCEPT ![c] = res.fr]
        /\ npid' = res.np
        /\ sess' = IF res.cr.pc = "ret" THEN SessOnReturn(sess, conn[c]) ELSE sess
        /\ UNCHANGED <<nonServerVars, hasScreen, nsess, sessions, crashed>>

\* server.go:401-409  the heartbeat ticker fires.
HeartbeatTick(c) ==
    /\ conn[c].hb
    /\ conn[c].hbRem = 0
    /\ conn' = [conn EXCEPT ![c].hbRem = HeartbeatInterval]
    /\ sess' = [sess EXCEPT ![conn[c].sid].timer = TimerArm(SessionTimeout)]
    /\ UNCHANGED <<nonServerVars, hasScreen, frames, nsess, sessions, npid, crashed>>

\* server.go:316-332  the timeout callback: delete the map entry, send
\* SIGTERM to screen, then wait for the session context or 5 seconds.
TimerFire(s) ==
    /\ sess[s].timer.st = "armed"
    /\ sess[s].timer.rem = 0
    /\ sessions' = MapDelete(sessions, sess[s].id)
    /\ sess' = [sess EXCEPT ![s].timer.st = "fired", ![s].term = TRUE,
                            ![s].cbwait = ~sess[s].ctxDone]
    /\ UNCHANGED <<nonServerVars, hasScreen, conn, frames, nsess, npid, crashed>>

\* server.go:329-330  the 5 second grace period ends: cancel().
Grace(s) ==
    /\ sess[s].cbwait
    /\ sess' = [sess EXCEPT ![s].cbwait = FALSE, ![s].ctxDone = TRUE]
    /\ UNCHANGED <<nonServerVars, hasScreen, conn, frames, nsess, sessions, npid, crashed>>

\* server.go:335-344  screen exits (by itself, after SIGTERM, or killed by
\* the cancelled session context) and the exit watcher cleans up.
SessExit(s) ==
    /\ sess[s].alive
    /\ sess' = [sess EXCEPT ![s].alive = FALSE, ![s].ctxDone = TRUE,
                            ![s].cbwait = FALSE, ![s].timer = TimerStop(@)]
    /\ sessions' = MapDelete(sessions, sess[s].id)
    /\ UNCHANGED <<nonServerVars, hasScreen, conn, frames, nsess, npid, crashed>>

\* server.go:41-50  Dispose(id)
Dispose(id) ==
    LET s == sessions[id] IN
    /\ s # 0
    /\ ~crashed
    /\ IF sess[s].timer.st = "nil"
          THEN crashed' = TRUE /\ UNCHANGED sess
          ELSE /\ sess' = [sess EXCEPT ![s].timer = TimerArm(0)]
               /\ UNCHANGED crashed
    /\ UNCHANGED <<nonServerVars, hasScreen, conn, frames, nsess, sessions, npid>>

\* One clock tick passes.  Timers that are due and heartbeats that are due
\* run before the clock advances.
Tick ==
    /\ \A s \in SessIdx : ~(sess[s].timer.st = "armed" /\ sess[s].timer.rem = 0)
    /\ \A c \in Conns : ~(conn[c].hb /\ conn[c].hbRem = 0)
    /\ \E s \in SessIdx : sess[s].timer.st = "armed"
    /\ sess' = [s \in SessIdx |->
                  IF sess[s].timer.st = "armed"
                      THEN [sess[s] EXCEPT !.timer.rem = @ - 1]
                      ELSE sess[s]]
    /\ conn' = [c \in Conns |->
                  IF conn[c].hb THEN [conn[c] EXCEPT !.hbRem = @ - 1] ELSE conn[c]]
    /\ UNCHANGED <<nonServerVars, hasScreen, frames, nsess, sessions, npid, crashed>>

\* ------------------------------------------------------------- session.go
\* Mutant: setState without the check that the state moves forward.
setStateNoGuard(new, err, by) ==
    [state |-> new,
     error |-> IF error = "nil" THEN err ELSE error,
     cause |-> IF state < StateClosing THEN by ELSE cause]

\* Mutant: setState keeps the last error given to it, not the first.
setStateLastError(new, err, by) ==
    IF new <= state
        THEN [state |-> state, error |-> error, cause |-> cause]
        ELSE [state |-> new,
              error |-> IF err = "nil" THEN error ELSE err,
              cause |-> IF state < StateClosing THEN by ELSE cause]

\* session.go:346-360  setState: the state only moves forward and the first
\* error is kept.  The result is the new <<state, error, cause>>.
setState(new, err, by) ==
    IF new <= state
        THEN [state |-> state, error |-> error, cause |-> cause]
        ELSE [state |-> new,
              error |-> IF error = "nil" THEN err ELSE error,
              cause |-> IF state < StateClosing THEN by ELSE cause]

\* Transports whose heartbeat goroutine is running.
Attachers == {c \in Conns : attach[c].pc = "live"}

\* Mutant: the heartbeat does not reset the timer when it returns.
HeartbeatNoLastReset(t) == t

\* session.go:277  defer s.timer.Reset(s.options.SessionTimeout)
HeartbeatLastReset(t) == TimerArm(SessionTimeout)

\* Mutant: no start-up timeout is armed.
StartupTimerNone == NilTimer

\* session.go:93  s.timer = time.AfterFunc(30*time.Second, s.Close)
StartupTimer == TimerArm(StartupTimeout)

\* session.go:76-122  lifecycle up to waitReady: start screen, arm the
\* start-up timeout, launch the exit watcher and the close handler.
SessionStart(ok) ==
    /\ lifecycle = "start"
    /\ IF ok
          THEN /\ process' = "running"
               /\ timer' = StartupTimer
               /\ closer' = "wait"
               /\ lifecycle' = "waitReady"
               /\ UNCHANGED <<state, error, cause, ctxDone>>
          ELSE LET r == setState(StateDone, "start", "start") IN
               /\ state' = r.state
               /\ error' = r.error
               /\ cause' = r.cause
               /\ ctxDone' = TRUE
               /\ lifecycle' = "end"
               /\ UNCHANGED <<process, timer, closer>>
    /\ UNCHANGED <<nonSessionVars, attach, idle>>

\* session.go:124-135, 177-223  waitReady returns.  ok: a probe succeeded
\* while ctx was live; then the timer is reset to the session timeout and
\* the session becomes Ready.  Otherwise the session moves to Closing.
SessionWaitReady(ok) ==
    /\ lifecycle = "waitReady"
    /\ ok => (~ctxDone /\ process = "running")
    /\ lifecycle' = "end"
    /\ IF ok
          THEN LET r == setState(StateReady, "nil", "") IN
               /\ timer' = TimerArm(SessionTimeout)
               /\ state' = r.state
               /\ error' = r.error
               /\ cause' = r.cause
               /\ idle' = 0
               /\ UNCHANGED ctxDone
          ELSE LET r == setState(StateClosing, "wait", "wait") IN
               /\ state' = r.state
               /\ error' = r.error
               /\ cause' = r.cause
               /\ ctxDone' = TRUE
               /\ UNCHANGED <<timer, idle>>
    /\ UNCHANGED <<nonSessionVars, process, closer, attach>>

\* session.go:96-103  screen exits (by itself, after SIGTERM or killed by
\* the cancelled ctx) and the exit watcher sets Done.
SessionExit(err) ==
    LET r == setState(StateDone, IF err THEN "exit" ELSE "nil", "exit") IN
    /\ process = "running"
    /\ process' = "exited"
    /\ state' = r.state
    /\ error' = r.error
    /\ cause' = r.cause
    /\ ctxDone' = TRUE
    /\ UNCHANGED <<nonSessionVars, timer, lifecycle, closer, attach, idle>>

\* session.go:106-117  the close handler wakes on Closing: stop the timer,
\* send SIGTERM, then wait for ctx or 5 seconds.
SessionCloseHandler ==
    /\ closer = "wait"
    /\ state >= StateClosing
    /\ timer' = TimerStop(timer)
    /\ closer' = IF ctxDone THEN "end" ELSE "grace"
    /\ UNCHANGED <<nonSessionVars, state, error, cause, process, ctxDone, lifecycle,
                   attach, idle>>

\* Mutant: the close handler gives up after the grace interval without
\* cancelling the context.
GraceNoCancel(done) == done

\* session.go:118-120  after the grace interval the close handler cancels
\* the context the process was started with.
GraceCancel(done) == TRUE

\* session.go:115-121  the wait of the close handler ends: the context is
\* done already, or the 5 seconds have passed and it is cancelled.
SessionGrace ==
    /\ closer = "grace"
    /\ closer' = "end"
    /\ ctxDone' = GraceCancel(ctxDone)
    /\ UNCHANGED <<nonSessionVars, state, error, cause, timer, process, lifecycle,
                   attach, idle>>

\* session.go:78, 96-103, 150  the process was started with ctx: once ctx
\* is done it is killed, process.Wait() returns and the exit watcher runs.
SessionKilled ==
    /\ ctxDone
    /\ \E err \in BOOLEAN : SessionExit(err)

\* session.go:93, 301-304  the timer fires and runs s.Close.
SessionTimer ==
    LET r == setState(StateClosing, "nil", "timer") IN
    /\ timer.st = "armed"
    /\ timer.rem = 0
    /\ timer' = [timer EXCEPT !.st = "fired"]
    /\ state' = r.state
    /\ error' = r.error
    /\ cause' = r.cause
    /\ UNCHANGED <<nonSessionVars, process, ctxDone, lifecycle, closer, attach, idle>>

\* session.go:301-302  the owner of the session calls s.Close(), in any
\* state: setState(StateClosing, nil), then the wait for Done begins.
SessionClose ==
    LET r == setState(StateClosing, "nil", "close") IN
    /\ closeCall.pc = "idle"
    /\ closeCall' = [pc |-> "wait", found |-> state]
    /\ state' = r.state
    /\ error' = r.error
    /\ cause' = r.cause
    /\ UNCHANGED <<nonSessionObjVars, timer, process, ctxDone, lifecycle, closer, attach,
                   idle>>

\* session.go:303, 363-370  waitForState(StateDone) returns and s.Close()
\* with it.
SessionCloseReturn ==
    /\ closeCall.pc = "wait"
    /\ state >= StateDone
    /\ closeCall' = [closeCall EXCEPT !.pc = "ret"]
    /\ UNCHANGED <<nonSessionObjVars, state, error, cause, timer, process, ctxDone,
                   lifecycle, closer, attach, idle>>

\* session.go:227-228  Attach is called and waits for Ready.
SessionAttach(c) ==
    /\ attach[c].pc = "idle"
    /\ attach' = [attach EXCEPT ![c].pc = "wait"]
    /\ UNCHANGED <<nonSessionVars, state, error, cause, timer, process, ctxDone,
                   lifecycle, closer, idle>>

\* session.go:229-245  the error Attach returns for the state and error
\* that waitForState(StateReady) gave it.
AttachError(st, err) ==
    IF st = StateClosing
        THEN IF err = "nil" THEN "session is closing" ELSE err
    ELSE IF st = StateDone
        THEN IF err = "nil" THEN "session is done" ELSE err
    ELSE "nil"

\* session.go:228-268  waitForState(StateReady) returns: an error for a
\* Closing or Done session, otherwise the heartbeat goroutine is launched
\* and the attach command returned.
SessionAttached(c) ==
    /\ attach[c].pc = "wait"
    /\ state >= StateReady
    /\ attach' = [attach EXCEPT ![c].pc = IF state = StateReady THEN "start" ELSE "failed",
                                ![c].err = AttachError(state, error)]
    /\ UNCHANGED <<nonSessionVars, state, error, cause, timer, process, ctxDone,
                   lifecycle, closer, idle>>

\* session.go:271-279  the heartbeat goroutine starts: reset the timer and
\* create the ticker.
SessionHeartbeat(c) ==
    /\ attach[c].pc = "start"
    /\ attach' = [attach EXCEPT ![c].pc = "live", ![c].hbRem = HeartbeatInterval]
    /\ timer' = TimerArm(SessionTimeout)
    /\ idle' = 0
    /\ UNCHANGED <<nonSessionVars, state, error, cause, process, ctxDone, lifecycle, closer>>

\* session.go:286-288  the heartbeat ticker fires.
SessionHeartbeatTick(c) ==
    /\ attach[c].pc = "live"
    /\ attach[c].hbRem = 0
    /\ attach' = [attach EXCEPT ![c].hbRem = HeartbeatInterval]
    /\ timer' = TimerArm(SessionTimeout)
    /\ idle' = 0
    /\ UNCHANGED <<nonSessionVars, state, error, cause, process, ctxDone, lifecycle, closer>>

\* Mutant: all attaches share one context, so the end of one ends all.
AttachEndAll(att, c) ==
    [d \in Conns |-> IF att[d].pc = "live" THEN [att[d] EXCEPT !.pc = "left"] ELSE att[d]]

\* session.go:247-254  each Attach derives its own context for its
\* heartbeat; its end stops that heartbeat only.
AttachEnd(att, c) == [att EXCEPT ![c].pc = "left"]

\* session.go:247-252, 275-285  the attach context ends (the request ended,
\* or the session reached Closing) and the heartbeat returns.
SessionHeartbeatEnd(c) ==
    /\ attach[c].pc = "live"
    /\ attach' = AttachEnd(attach, c)
    /\ timer' = HeartbeatLastReset(timer)
    /\ idle' = 0
    /\ UNCHANGED <<nonSessionVars, state, error, cause, process, ctxDone, lifecycle, closer>>

\* One clock tick passes.  A due timer, a due heartbeat and a launched
\* heartbeat goroutine run before the clock advances.
SessionTick ==
    /\ timer.st = "armed"
    /\ timer.rem > 0
    /\ \A c \in Conns : ~(attach[c].pc = "live" /\ attach[c].hbRem = 0)
    /\ \A c \in Conns : attach[c].pc # "start"
    /\ timer' = [timer EXCEPT !.rem = @ - 1]
    /\ attach' = [c \in Conns |->
                    IF attach[c].pc = "live"
                        THEN [attach[c] EXCEPT !.hbRem = @ - 1]
                        ELSE attach[c]]
    /\ idle' = IF Attachers # {} THEN 0
               ELSE IF idle < SessionTimeout THEN idle + 1 ELSE idle
    /\ UNCHANGED <<nonSessionVars, state, error, cause, process, ctxDone, lifecycle, closer>>

\* ------------------------------------------------- waitForStateOrContext
\* Mutant: the waiter sees a Broadcast made at any time after its check.
BroadcastReachesAll(p) == p \in {"add", "waiting"}

\* sync.Cond: Broadcast wakes the goroutines that are in Wait, on the
\* notify list, when it is called; a goroutine that has checked its
\* condition but has not called Wait yet is not among them.
BroadcastReaches(p) == p = "waiting"

\* session.go:249-252, 374-380  the goroutine launched by a successful
\* Attach runs: waitForStateOrContext launches the waker goroutine and
\* locks cond.L.
WatchStart(c) ==
    /\ attach[c].pc \in {"start", "live", "left"}
    /\ watch[c].pc = "off"
    /\ watch' = [watch EXCEPT ![c].pc = "check", ![c].waker = "wait"]
    /\ UNCHANGED nonWaitVars

\* session.go:248  the context given to Attach ends (the request is over):
\* the context derived from it is done.
AttachCtxEnd(c) ==
    /\ attach[c].pc \in {"start", "live", "left"}
    /\ ~watch[c].ctxDone
    /\ watch' = [watch EXCEPT ![c].ctxDone = TRUE]
    /\ UNCHANGED nonWaitVars

\* session.go:375-379  the waker: <-ctx.Done() returns and the deferred
\* s.cond.Broadcast() runs, without cond.L held.
WakerBroadcast(c) ==
    /\ watch[c].waker = "wait"
    /\ watch[c].ctxDone
    /\ watch' = [d \in Conns |->
                   [watch[d] EXCEPT
                       !.waker = IF d = c THEN "done" ELSE @,
                       !.notified = @ \/ BroadcastReaches(watch[d].pc)]]
    /\ UNCHANGED nonWaitVars

\* session.go:380-385, 250  with cond.L held the waiter evaluates
\* ctx.Err() == nil && state > s.state: it returns (and the deferred
\* cancel() of the goroutine ends the context) or goes on to Wait.
WaitCheck(c) ==
    /\ watch[c].pc = "check"
    /\ watch' = [watch EXCEPT ![c] =
                   IF watch[c].ctxDone \/ state >= StateClosing
                       THEN [@ EXCEPT !.pc = "ret", !.ctxDone = TRUE]
                       ELSE [@ EXCEPT !.pc = "add", !.seen = state,
                                      !.notified = FALSE]]
    /\ UNCHANGED nonWaitVars

\* session.go:383  s.cond.Wait(): the waiter puts itself on the notify
\* list, unlocks cond.L and sleeps.
WaitAdd(c) ==
    /\ watch[c].pc = "add"
    /\ watch' = [watch EXCEPT ![c].pc = "waiting"]
    /\ UNCHANGED nonWaitVars

\* session.go:359, 377, 382-383  the sleeping waiter is woken by a
\* Broadcast (of a waker, or of a setState that raised the state: setState
\* holds cond.L, so it runs before the waiter's check or after the waiter
\* is on the list), locks cond.L again and evaluates the condition again.
WaitWake(c) ==
    /\ watch[c].pc = "waiting"
    /\ watch[c].notified \/ state # watch[c].seen
    /\ watch' = [watch EXCEPT ![c].pc = "check"]
    /\ UNCHANGED nonWaitVars

\* session.go:284-285  the heartbeat of an attach returns once the derived
\* context is done.
HeartbeatOnDone(c) ==
    /\ watch[c].ctxDone
    /\ SessionHeartbeatEnd(c)

\* ---------------------------------------------------------- internal/proto
\* internal/proto/protocol.go:43-49  headerWriter.Write(b) on a writer made
\* with header h.
HeaderWrite(h, b) ==
    /\ sent' = [header |-> h, body |-> b, nilBody |-> FALSE, set |-> TRUE]
    /\ wire' = WithHeader(h, b)
    /\ got' = NoFrame
    /\ UNCHANGED nonProtoVars

\* internal/proto/protocol.go:18-28  the receiver splits the message.
Split ==
    /\ sent.set
    /\ ~got.set
    /\ got' = SplitMessage(wire)
    /\ UNCHANGED <<nonProtoVars, sent, wire>>

\* ------------------------------------------------------------------ client
\* client.go:306-317  remoteStdin.Write(b) is called with len(b) = n.
StdinWrite(n) ==
    /\ rstdin.pc \in {"idle", "done"}
    /\ rstdin' = [pc |-> "loop", len |-> n, off |-> 0, nn |-> 0, err |-> FALSE]
    /\ stdinWire' = <<>>
    /\ UNCHANGED nonClientVars

\* client.go:318-330  the next stdinWriter.Write of the call: a chunk of
\* maxBodySize bytes inside the loop, or the rest after it.  ok is the
\* outcome of the write to the connection.
StdinWriteStep(ok) ==
    LET rem == rstdin.len - rstdin.off IN
    /\ rstdin.pc = "loop"
    /\ IF ~ok
          THEN /\ rstdin' = [rstdin EXCEPT !.pc = "done", !.err = TRUE]
               /\ UNCHANGED stdinWire
       ELSE IF MoreThanFrame(rem)
          THEN /\ stdinWire' = Append(stdinWire,
                                     StdinFrame(rstdin.off, rstdin.off + maxBodySize))
               /\ rstdin' = [rstdin EXCEPT !.nn = @ + maxBodySize,
                                           !.off = NextOffset(@)]
       ELSE /\ stdinWire' = Append(stdinWire, StdinFrame(rstdin.off, rstdin.len))
            /\ rstdin' = [rstdin EXCEPT !.nn = @ + rem, !.off = rstdin.len,
                                        !.pc = "done"]
    /\ UNCHANGED nonClientVars

\* --------------------------------------------------------------- execers
\* localexec_unix.go:45-106  LocalExecer.Start and client.go:234-283
\* remoteExec.Start, for a command with the given TTY and Stdin fields.
ExecerStart(execer, tty, stdin) ==
    /\ ~started.on
    /\ started' = [on |-> TRUE, execer |-> execer, tty |-> tty, stdin |-> stdin,
                   writer |-> IF execer = "local" THEN LocalStdin(tty, stdin)
                                                  ELSE RemoteStdin(tty, stdin),
                   closed |-> FALSE]
    /\ UNCHANGED <<nonExecVars, reached, writeErr, winsize>>

\* process.Stdin().Write(b) with len(b) = n.  localexec.go:137-139: the
\* disabled writer returns an error; the other writers pass the bytes on
\* until they are closed.
ProcessStdinWrite(n) ==
    /\ started.on
    /\ reached + n <= MaxStdin
    /\ IF started.writer = "disabled"
          THEN writeErr' = "disabled" /\ UNCHANGED reached
       ELSE IF started.closed
          THEN writeErr' = "closed" /\ UNCHANGED reached
       ELSE writeErr' = "nil" /\ reached' = reached + n
    /\ UNCHANGED <<nonExecVars, started, winsize>>

\* process.Stdin().Close()
ProcessStdinClose ==
    /\ started.on
    /\ ~started.closed
    /\ started' = [started EXCEPT !.closed = TRUE]
    /\ UNCHANGED <<nonExecVars, reached, writeErr, winsize>>

\* localexec_unix.go:37-42, 160-168  Resize(ctx, rows, cols) on a process
\* started by LocalExecer.
ProcessResize(rows, cols, nilOut) ==
    /\ started.on
    /\ started.execer = "local"
    /\ winsize' = LocalResize(winsize, started.tty, rows, cols, nilOut)
    /\ UNCHANGED <<nonExecVars, started, reached, writeErr>>

\* ---------------------------------------------------------------- streams
\* client.go:306-331  remoteStdin.Write of the next n bytes of InStream,
\* sent as one stdin message.
RemoteStdinWrite(n) ==
    /\ cn + n <= Len(InStream)
    /\ cn' = cn + n
    /\ c2s' = Append(c2s, WithHeader(HeaderByt("stdin"), SubSeq(InStream, cn + 1, cn + n)))
    /\ UNCHANGED <<nonStreamVars, closeAt, pin, pinClosed, serveRet, pn, pr, s2c, cread>>

\* client.go:333-343  remoteStdin.Close sends a close_stdin message with
\* an empty body.
RemoteStdinClose ==
    /\ closeAt = -1
    /\ closeAt' = cn
    /\ c2s' = Append(c2s, WithHeader(HeaderByt("close_stdin"), <<>>))
    /\ UNCHANGED <<nonStreamVars, cn, pin, pinClosed, serveRet, pn, pr, s2c, cread>>

\* server.go:77-98, 169-178  Serve reads the oldest client message and
\* handles a stdin or close_stdin.  ok is the outcome of the write to, or
\* close of, the process's standard input; a write after the close fails.
ServeStdin(ok) ==
    /\ c2s # <<>>
    /\ ~serveRet
    /\ LET m == SplitMessage(Head(c2s))
           t == HeaderType(m.header)
       IN  IF t = "stdin" THEN
               IF ok /\ ~pinClosed
                   THEN /\ pin' = StdinDeliver(pin, m.body)
                        /\ UNCHANGED <<pinClosed, serveRet>>
                   ELSE /\ serveRet' = TRUE
                        /\ UNCHANGED <<pin, pinClosed>>
           ELSE IF t = "close_stdin" THEN
               IF ok
                   THEN /\ pinClosed' = TRUE
                        /\ UNCHANGED <<pin, serveRet>>
                   ELSE /\ serveRet' = TRUE
                        /\ UNCHANGED <<pin, pinClosed>>
           ELSE UNCHANGED <<pin, pinClosed, serveRet>>
    /\ c2s' = Tail(c2s)
    /\ UNCHANGED <<nonStreamVars, cn, closeAt, pn, pr, s2c, cread>>

\* The process writes the next byte of a stream.
ProcessOutput(st) ==
    /\ pn[st] < Len(OutStream(st))
    /\ pn' = [pn EXCEPT ![st] = @ + 1]
    /\ UNCHANGED <<nonStreamVars, cn, closeAt, c2s, pin, pinClosed, serveRet, pr, s2c, cread>>

\* server.go:215-226  the copier of a stream reads the next k bytes the
\* process wrote and writes them as one message with the stream's header.
CopyWithHeader(st, k) ==
    /\ pr[st] + k <= pn[st]
    /\ pr' = [pr EXCEPT ![st] = @ + k]
    /\ s2c' = Append(s2c, WithHeader(HeaderByt(st),
                                    SubSeq(OutStream(st), pr[st] + 1, pr[st] + k)))
    /\ UNCHANGED <<nonStreamVars, cn, closeAt, c2s, pin, pinClosed, serveRet, pn, cread>>

\* client.go:369-394  listen reads the oldest server message, splits it
\* and writes the body to the pipe of its type.
Listen ==
    /\ s2c # <<>>
    /\ LET m == SplitMessage(Head(s2c))
           t == HeaderType(m.header)
       IN  cread' = IF t \in Streams
                        THEN [cread EXCEPT ![ListenPipe(t)] = @ \o m.body]
                        ELSE cread
    /\ s2c' = Tail(s2c)
    /\ UNCHANGED <<nonStreamVars, cn, closeAt, c2s, pin, pinClosed, serveRet, pn, pr>>

\* ---------------------------------------------------------- remote process
\* part_004:45-96  Start: the start message is written, the first frame f
\* (or a read error) comes back, and on success the listen goroutine is
\* started.  A pid frame means the server started a process.
RemoteStart(f) ==
    /\ rp.start = "no"
    /\ LET res == StartResult(f) IN
       rp' = IF res.ok
                 THEN [rp EXCEPT !.start = "ok", !.pid = res.pid, !.lpc = "read"]
                 ELSE [rp EXCEPT !.start = "fail"]
    /\ rsrv' = [rsrv EXCEPT !.first = f.t, !.pid = IF f.t = "pid" THEN f.pid ELSE 0]
    /\ UNCHANGED <<nonRemoteVars, rconn, rout>>

\* The process behind the server writes the next byte of a stream.
RProcessOutput(st) ==
    /\ rsrv.pid # 0
    /\ rsrv.werr = NoWait
    /\ rsrv.pn[st] < Len(OutStream(st))
    /\ rsrv' = [rsrv EXCEPT !.pn[st] = @ + 1]
    /\ UNCHANGED <<nonRemoteVars, rp, rconn, rout>>

\* server.go:215-226  a copier sends the next k bytes of a stream as one
\* frame.
RCopy(st, k) ==
    /\ rsrv.pid # 0
    /\ ~rsrv.eof
    /\ Len(rconn) < MaxIn
    /\ rsrv.pr[st] + k <= rsrv.pn[st]
    /\ rsrv' = [rsrv EXCEPT !.pr[st] = @ + k]
    /\ rconn' = Append(rconn, StreamFrame(st, SubSeq(OutStream(st), rsrv.pr[st] + 1,
                                                     rsrv.pr[st] + k)))
    /\ UNCHANGED <<nonRemoteVars, rp, rout>>

\* The process exits and process.Wait() on the server returns err.
RProcessExit(err) ==
    /\ rsrv.pid # 0
    /\ rsrv.werr = NoWait
    /\ rsrv' = [rsrv EXCEPT !.werr = err]
    /\ UNCHANGED <<nonRemoteVars, rp, rconn, rout>>

\* server.go:146-152  the waiter sends the exit_code frame once both
\* copiers have sent everything the process wrote.
RSendExit ==
    /\ rsrv.werr # NoWait
    /\ ~rsrv.exitSent
    /\ ~rsrv.eof
    /\ \A st \in Streams : rsrv.pr[st] = rsrv.pn[st]
    /\ Len(rconn) < MaxIn
    /\ rsrv' = [rsrv EXCEPT !.exitSent = TRUE]
    /\ rconn' = Append(rconn, ExitFrame(rsrv.werr))
    /\ UNCHANGED <<nonRemoteVars, rp, rout>>

\* A frame of an unknown type, or one that is not JSON, is sent to the
\* client.
RSendForeign(f) ==
    /\ rp.start = "ok"
    /\ ~rsrv.eof
    /\ rsrv.foreign < MaxForeign
    /\ Len(rconn) < MaxIn
    /\ rsrv' = [rsrv EXCEPT !.foreign = @ + 1]
    /\ rconn' = Append(rconn, f)
    /\ UNCHANGED <<nonRemoteVars, rp, rout>>

\* The transport fails or is closed by the server: once the frames in
\* flight are read, conn.Read returns an error.
RConnDrop ==
    /\ rp.start = "ok"
    /\ ~rsrv.eof
    /\ rsrv' = [rsrv EXCEPT !.eof = TRUE]
    /\ UNCHANGED <<nonRemoteVars, rp, rconn, rout>>

\* part_004:228-270  one iteration of listen's loop: the loop guard, the
\* read of the oldest frame and the switch on its type.
ListenRead ==
    /\ rp.lpc = "read"
    /\ IF rp.cancelled THEN
           /\ rp' = ListenCtxDone(rp)
           /\ UNCHANGED rconn
       ELSE IF rconn # <<>> THEN
           LET f == Head(rconn) IN
           /\ rconn' = Tail(rconn)
           /\ rp' = IF f.t = "malformed"
                        THEN ListenReturn([rp EXCEPT !.readErr = "invalid character"])
                    ELSE IF f.t \in Streams
                        THEN IF f.body = <<>> THEN rp
                             ELSE [rp EXCEPT !.lpc = "write", !.pend = f.body, !.pst = f.t]
                    ELSE IF f.t = "exit_code"
                        THEN ListenReturn([rp EXCEPT !.exitSet = TRUE, !.exitCode = f.code])
                    ELSE [rp EXCEPT !.ignored = @ + 1]
       ELSE
           /\ rsrv.eof
           /\ rp' = ListenReturn([rp EXCEPT !.readErr = "read failed"])
           /\ UNCHANGED rconn
    /\ UNCHANGED <<nonRemoteVars, rsrv, rout>>

\* part_004:205-210  writeCtx returns nil: the whole body has been read
\* from the pipe.
ListenWritten ==
    /\ rp.lpc = "write"
    /\ rp.pend = <<>>
    /\ rp' = [rp EXCEPT !.lpc = "read", !.pst = ""]
    /\ UNCHANGED <<nonRemoteVars, rconn, rsrv, rout>>

\* part_004:199-210, 245-255  writeCtx returns ctx.Err() and listen returns
\* with it as the read error.
ListenAbort ==
    /\ rp.lpc = "write"
    /\ WriteCtxAborts(rp.cancelled)
    /\ rp' = ListenReturn([rp EXCEPT !.readErr = "context canceled"])
    /\ UNCHANGED <<nonRemoteVars, rconn, rsrv, rout>>

\* The caller reads k bytes from Stdout() or Stderr(): they come out of the
\* body the pipe's writer is blocked on.
CallerRead(st, k) ==
    /\ rp.lpc = "write"
    /\ rp.pst = st
    /\ k <= Len(rp.pend)
    /\ rout' = [rout EXCEPT ![st] = @ \o SubSeq(rp.pend, 1, k)]
    /\ rp' = [rp EXCEPT !.pend = SubSeq(@, k + 1, Len(@))]
    /\ UNCHANGED <<nonRemoteVars, rconn, rsrv>>

\* part_004:310-311  Wait is called and blocks on r.done.
RemoteWait ==
    /\ rp.start = "ok"
    /\ rp.wait = "no"
    /\ rp' = [rp EXCEPT !.wait = "called"]
    /\ UNCHANGED <<nonRemoteVars, rconn, rsrv, rout>>

\* part_004:311-321  r.done is closed and Wait returns.
RemoteWaitReturn ==
    /\ rp.wait = "called"
    /\ rp.done
    /\ rp' = [rp EXCEPT !.wait = "ret", !.waitRes = WaitResult(rp)]
    /\ UNCHANGED <<nonRemoteVars, rconn, rsrv, rout>>

\* part_004:324-326  Close cancels listen's context and blocks on r.done.
RemoteClose ==
    /\ rp.start = "ok"
    /\ rp.close = "no"
    /\ rp' = [rp EXCEPT !.close = "called", !.cancelled = TRUE]
    /\ UNCHANGED <<nonRemoteVars, rconn, rsrv, rout>>

\* part_004:326-328  r.done is closed and Close returns.
RemoteCloseReturn ==
    /\ rp.close = "called"
    /\ rp.done
    /\ rp' = [rp EXCEPT !.close = "ret"]
    /\ UNCHANGED <<nonRemoteVars, rconn, rsrv, rout>>

\* --------------------------------------------------------- CombinedOutput
\* part_012:65-78  execer.Start; on success the two copy goroutines are
\* started.
CombinedStart(ok) ==
    /\ comb.pc = "call"
    /\ comb' = IF ok THEN [comb EXCEPT !.pc = "wait", !.alive = TRUE]
                     ELSE [comb EXCEPT !.pc = "ret",
                                       !.err = [kind |-> "other", code |-> 0,
                                                msg |-> "start execer"]]
    /\ UNCHANGED <<nonCombinedVars, cbuf>>

\* The command writes the next byte of a stream to its pipe.
CombinedProcessWrite(st) ==
    /\ comb.alive
    /\ comb.written[st] < Len(OutStream(st))
    /\ comb' = [comb EXCEPT !.written[st] = @ + 1]
    /\ UNCHANGED <<nonCombinedVars, cbuf>>

\* The command exits; its Wait will return err.
CombinedProcessExit(err) ==
    /\ comb.alive
    /\ comb' = [comb EXCEPT !.alive = FALSE, !.werr = err]
    /\ UNCHANGED <<nonCombinedVars, cbuf>>

\* part_012:77-78  io.Copy reads the next k bytes of a stream from the
\* process's pipe, which is open until Wait returns.
CombinedCopyRead(st, k) ==
    /\ comb.pc = "wait"
    /\ comb.held[st] = <<>>
    /\ comb.taken[st] + k <= comb.written[st]
    /\ comb' = [comb EXCEPT !.taken[st] = @ + k,
                            !.held[st] = SubSeq(OutStream(st), comb.taken[st] + 1,
                                                comb.taken[st] + k)]
    /\ UNCHANGED <<nonCombinedVars, cbuf>>

\* part_012:53-58, 77-78  io.Copy writes the chunk it read to the buffer,
\* under the syncWriter's lock.
CombinedCopyWrite(st) ==
    /\ comb.held[st] # <<>>
    /\ cbuf' = cbuf \o [i \in 1..Len(comb.held[st]) |->
                            [st |-> st, b |-> comb.held[st][i]]]
    /\ comb' = [comb EXCEPT !.held[st] = <<>>]
    /\ UNCHANGED nonCombinedVars

\* part_012:80-81  proc.Wait() returns once the command has exited, closing
\* the pipes (localexec.go:42-50, cmd.Wait), and CombinedOutput returns
\* what the buffer holds at that moment.
CombinedWaitReturn ==
    /\ comb.pc = "wait"
    /\ ~comb.alive
    /\ comb' = [comb EXCEPT !.pc = "ret", !.out = cbuf, !.err = comb.werr]
    /\ UNCHANGED <<nonCombinedVars, cbuf>>

\* ------------------------------------------------------------ replay buffer
\* localexec_unix.go:207  a read of the process's output through the
\* TeeReader writes the bytes read to the ring buffer.
TeeRead(buf) ==
    /\ Len(rhist) + Len(buf) <= MaxRing
    /\ ring' = RingWrite(ring, buf)
    /\ rhist' = rhist \o buf
    /\ UNCHANGED nonRingVars

\* ---------------------------------------------------------- specifications
\* The steps of a Serve call on a transport in C for client messages in M,
\* and of the goroutines it launches.
ServeSteps(C, M) ==
    \/ \E c \in C, m \in M, ok \in BOOLEAN : ServeRead(c, m, ok)
    \/ \E c \in C, normal \in BOOLEAN : ClientClose(c, normal)
    \/ \E c \in C, ok \in BOOLEAN : CreateSession(c, ok)
    \/ \E c \in C : RecvReady(c)
    \/ \E c \in C, ok \in BOOLEAN : AttachStart(c, ok)
    \/ \E c \in C : HeartbeatTick(c)

\* The steps of the output copiers, the waiter and the process of a
\* transport in C.  They read and write only that transport's frames and
\* its copier, waiter and process fields.
OutputSteps(C) ==
    \/ \E c \in C, st \in {"stdout", "stderr"} : CopyFrame(c, st)
    \/ \E c \in C, st \in {"stdout", "stderr"} : CopyEOF(c, st)
    \/ \E c \in C, err \in WaitResults : WaitExit(c, err)
    \/ \E c \in C : ProcExit(c)

\* The steps of the sessions' goroutines and timers, of Dispose and of the
\* clock.
SessionSteps ==
    \/ \E s \in SessIdx, ok \in BOOLEAN : Probe(s, ok)
    \/ \E s \in SessIdx : TimerFire(s)
    \/ \E s \in SessIdx : Grace(s)
    \/ \E s \in SessIdx : SessExit(s)
    \/ \E id \in Ids : Dispose(id)
    \/ Tick

\* One transport, every kind of client message, every goroutine.
NextServe == ServeSteps({1}, Msgs) \/ OutputSteps({1}) \/ SessionSteps

SpecServe == Init /\ [][NextServe]_vars

\* All transports; the clients start terminals of a non-zero size, with or
\* without an id.  The output goroutines, which touch no session state,
\* are left out.
TtyStarts == {m \in StartMsgs : m.tty /\ m.rows # 0 /\ m.cols # 0}

NextSess == ServeSteps(Conns, TtyStarts) \/ SessionSteps

SpecSess == Init /\ [][NextSess]_vars

\* One Session object of session.go and the Attach calls of all transports.
NextSession ==
    \/ \E ok \in BOOLEAN : SessionStart(ok)
    \/ \E ok \in BOOLEAN : SessionWaitReady(ok)
    \/ \E err \in BOOLEAN : SessionExit(err)
    \/ SessionCloseHandler
    \/ SessionGrace
    \/ SessionTimer
    \/ SessionClose
    \/ SessionCloseReturn
    \/ \E c \in Conns : SessionAttach(c)
    \/ \E c \in Conns : SessionAttached(c)
    \/ \E c \in Conns : SessionHeartbeat(c)
    \/ \E c \in Conns : SessionHeartbeatTick(c)
    \/ \E c \in Conns : SessionHeartbeatEnd(c)
    \/ SessionTick

SpecSession == Init /\ [][NextSession]_vars

\* Frames with any header and body of the bounded lengths.
NextProto ==
    \/ \E h \in BSeq(Bytes, MaxHeader), b \in BSeq(Bytes, MaxBody) : HeaderWrite(h, b)
    \/ Split

SpecProto == Init /\ [][NextProto]_vars

\* Write calls on one remoteStdin, for the input lengths of StdinLens.
NextStdin ==
    \/ \E n \in StdinLens : StdinWrite(n)
    \/ \E ok \in BOOLEAN : StdinWriteStep(ok)

SpecStdin == Init /\ [][NextStdin]_vars

\* One command started by either execer, writes to its Stdin() and calls
\* of its Resize.
NextExec ==
    \/ \E x \in {"local", "remote"}, tty \in BOOLEAN, stdin \in BOOLEAN :
          ExecerStart(x, tty, stdin)
    \/ \E n \in 1..2 : ProcessStdinWrite(n)
    \/ ProcessStdinClose
    \/ \E rows \in WinSizes, cols \in WinSizes, nilOut \in NilPtyOutcomes :
          ProcessResize(rows, cols, nilOut)

SpecExec == Init /\ [][NextExec]_vars

\* The standard input and the two output streams of one remote process.
NextStreams ==
    \/ \E n \in 1..2 : RemoteStdinWrite(n)
    \/ RemoteStdinClose
    \/ \E ok \in BOOLEAN : ServeStdin(ok)
    \/ \E st \in Streams : ProcessOutput(st)
    \/ \E st \in Streams, k \in 1..2 : CopyWithHeader(st, k)
    \/ Listen

SpecStreams == Init /\ [][NextStreams]_vars

\* The same, with the scheduling the Go runtime provides: the lifecycle
\* goroutine gets to run, the clock advances, a due timer runs its
\* callback, and a goroutine woken by cond.Broadcast returns from its wait.
\* Nothing forces a probe to succeed or a client to call or leave.
SpecSessionLive ==
    /\ SpecSession
    /\ WF_vars(\E ok \in BOOLEAN : SessionStart(ok))
    /\ WF_vars(SessionTick)
    /\ WF_vars(SessionTimer)
    /\ \A c \in Conns : WF_vars(SessionAttached(c))

\* The goroutines of a session are scheduled: the lifecycle starts, the
\* close handler wakes on Closing and ends its grace interval, a process
\* whose context is done is killed, and a Close waiting for Done wakes.
\* Nothing is assumed of a process reacting to SIGTERM, of the probe or of
\* the clients.
SpecCloseLive ==
    /\ SpecSession
    /\ WF_vars(\E ok \in BOOLEAN : SessionStart(ok))
    /\ WF_vars(SessionCloseHandler)
    /\ WF_vars(SessionGrace)
    /\ WF_vars(SessionKilled)
    /\ WF_vars(SessionCloseReturn)

\* One remote process: any first frame, the process and copiers behind the
\* server, foreign frames, a failing transport, and the caller's reads,
\* Wait and Close.
NextRemote ==
    \/ \E f \in FirstFrames : RemoteStart(f)
    \/ \E st \in Streams : RProcessOutput(st)
    \/ \E st \in Streams, k \in 1..2 : RCopy(st, k)
    \/ \E err \in WaitResults : RProcessExit(err)
    \/ RSendExit
    \/ \E f \in ForeignFrames : RSendForeign(f)
    \/ RConnDrop
    \/ ListenRead
    \/ ListenWritten
    \/ ListenAbort
    \/ \E st \in Streams, k \in 1..2 : CallerRead(st, k)
    \/ RemoteWait
    \/ RemoteWaitReturn
    \/ RemoteClose
    \/ RemoteCloseReturn

SpecRemote == Init /\ [][NextRemote]_vars

\* The listen goroutine keeps running and a blocked Close call is resumed;
\* nothing is assumed of the server, the transport or the caller's reads.
SpecRemoteLive ==
    /\ SpecRemote
    /\ WF_vars(ListenRead)
    /\ WF_vars(ListenAbort)
    /\ WF_vars(RemoteCloseReturn)

\* One transport whose client starts its process directly: every message
\* but the start of a terminal with an id, a stdin write that blocks, the
\* client closing the transport and the caller cancelling Serve's context.
DirectMsgs == {m \in Msgs : ~(m.tty /\ m.id # "")}

NextDirect ==
    \/ \E m \in DirectMsgs, ok \in BOOLEAN : ServeRead(1, m, ok)
    \/ \E normal \in BOOLEAN : ClientClose(1, normal)
    \/ CtxCancel(1)
    \/ ServeStdinBlock(1)
    \/ \E ok \in BOOLEAN : StdinUnblock(1, ok)
    \/ OutputSteps({1})

SpecDirect == Init /\ [][NextDirect]_vars

\* One session with the goroutines Attach launches, while the clock stands
\* still: the steps of the session that do not depend on time, and for
\* each attach its context, its waiter and its waker.
NextWatch ==
    \/ \E ok \in BOOLEAN : SessionStart(ok)
    \/ \E ok \in BOOLEAN : SessionWaitReady(ok)
    \/ \E err \in BOOLEAN : SessionExit(err)
    \/ SessionCloseHandler
    \/ SessionGrace
    \/ SessionClose
    \/ SessionCloseReturn
    \/ \E c \in Conns : SessionAttach(c)
    \/ \E c \in Conns : SessionAttached(c)
    \/ \E c \in Conns : SessionHeartbeat(c)
    \/ \E c \in Conns : HeartbeatOnDone(c)
    \/ \E c \in Conns : WatchStart(c)
    \/ \E c \in Conns : AttachCtxEnd(c)
    \/ \E c \in Conns : WakerBroadcast(c)
    \/ \E c \in Conns : WaitCheck(c)
    \/ \E c \in Conns : WaitAdd(c)
    \/ \E c \in Conns : WaitWake(c)

SpecWatch == Init /\ [][NextWatch]_vars

\* Every launched goroutine is scheduled: the waiter, the waker and the
\* goroutine of Attach take their steps.  Nothing is assumed of the session
\* changing its state.
SpecWatchLive ==
    /\ SpecWatch
    /\ \A c \in Conns :
          /\ WF_vars(WatchStart(c))
          /\ WF_vars(WakerBroadcast(c))
          /\ WF_vars(WaitCheck(c))
          /\ WF_vars(WaitAdd(c))
          /\ WF_vars(WaitWake(c))

\* The kill of exec.CommandContext happens and a write to a dead process
\* fails; nothing is assumed of a live process reading its standard input.
SpecDirectLive ==
    /\ SpecDirect
    /\ WF_vars(KillOnDone(1))
    /\ WF_vars(StdinWriteFails(1))

\* One CombinedOutput call.
NextCombined ==
    \/ \E ok \in BOOLEAN : CombinedStart(ok)
    \/ \E st \in Streams : CombinedProcessWrite(st)
    \/ \E err \in WaitResults : CombinedProcessExit(err)
    \/ \E st \in Streams, k \in 1..2 : CombinedCopyRead(st, k)
    \/ \E st \in Streams : CombinedCopyWrite(st)
    \/ CombinedWaitReturn

SpecCombined == Init /\ [][NextCombined]_vars

\* The output of one terminal with an id, read in chunks of one to
\* MaxChunk bytes.
NextRing == \E buf \in BSeq({97, 98}, MaxChunk) \ {<<>>} : TeeRead(buf)

SpecRing == Init /\ [][NextRing]_vars

\* ------------------------------------------------------------------ claims
IsOutput(f) == f.t \in {"stdout", "stderr"}

\* The step reads one more client message on transport c and dispatches on a
\* header type in T.
ReadsOf(c, T) ==
    /\ conn[c].pc = "read"
    /\ conn'[c].nread = conn[c].nread + 1
    /\ conn'[c].why # "malformed"
    /\ conn'[c].hdr \in T

\* C1: on every transport there is at most one pid frame, every stdout and
\* stderr frame comes after it, and once the start has succeeded (the copiers
\* are launched) there is exactly one pid frame, the first frame, carrying
\* the pid of Serve's process.
C1_PidOnceFirst ==
    \A c \in Conns :
        /\ Count(frames[c], "pid") <= 1
        /\ \A i \in 1..Len(frames[c]) :
              IsOutput(frames[c][i]) => \E j \in 1..(i - 1) : frames[c][j].t = "pid"
        /\ conn[c].cout # "off" =>
              /\ Count(frames[c], "pid") = 1
              /\ frames[c][1] = [t |-> "pid", v |-> conn[c].proc]

C1_Witness ==
    \E c \in Conns :
        /\ Count(frames[c], "pid") = 1
        /\ Count(frames[c], "stdout") = 1
        /\ Count(frames[c], "stderr") = 1

\* C2: on every transport there is at most one exit_code frame, it is the
\* last frame, and it is there only once both copiers have finished and the
\* process has exited.
C2_ExitOnceLast ==
    \A c \in Conns :
        /\ Count(frames[c], "exit_code") <= 1
        /\ \A i \in 1..Len(frames[c]) :
              frames[c][i].t = "exit_code" =>
                  /\ i = Len(frames[c])
                  /\ conn[c].cout = "done"
                  /\ conn[c].cerr = "done"
                  /\ ~conn[c].palive

C2_Witness ==
    \E c \in Conns :
        /\ Len(frames[c]) >= 3
        /\ frames[c][Len(frames[c])].t = "exit_code"
        /\ \E i \in 1..Len(frames[c]) : IsOutput(frames[c][i])

\* C3: Serve never starts a second process, and a message dispatched as a
\* start while Serve already has a process makes Serve return an error
\* without starting anything.
C3_OneProcess ==
    [][\A c \in Conns :
          /\ conn'[c].spawns <= 1
          /\ (ReadsOf(c, {"start"}) /\ conn[c].proc # 0) =>
                /\ conn'[c].pc = "ret"
                /\ conn'[c].ret = "error"
                /\ conn'[c].proc = conn[c].proc
                /\ npid' = npid]_vars

C3_Witness ==
    \E c \in Conns :
        /\ conn[c].why = "started"
        /\ conn[c].proc # 0
        /\ conn[c].spawns = 1

\* C4 (as claimed): a resize, stdin or close_stdin message read while Serve
\* has no process makes Serve return an error, and no operation on a
\* process is performed.
C4_EarlyMessageIsError ==
    [][\A c \in Conns :
          (ReadsOf(c, {"resize", "stdin", "close_stdin"}) /\ conn[c].proc = 0) =>
                /\ conn'[c].pc = "ret"
                /\ conn'[c].ret = "error"
                /\ conn'[c].ops = conn[c].ops]_vars

Attached(c) ==
    /\ conn[c].path = "session"
    /\ conn[c].cout # "off"
    /\ conn[c].sid # 0

\* C6 (as claimed): two transports whose starts of a TTY with the same
\* non-empty id both succeeded on the same session object, whose timer never
\* fired, carry the same pid in their pid frames.
C6_SamePid ==
    \A c1, c2 \in Conns :
        (/\ c1 # c2
         /\ Attached(c1)
         /\ Attached(c2)
         /\ conn[c1].cmd.id = conn[c2].cmd.id
         /\ conn[c1].sid = conn[c2].sid
         /\ ~sess[conn[c1].sid].term)
        => frames[c1][1].v = frames[c2][1].v

C9_FiredSessionReplaced ==
    [][/\ \A s \in SessIdx : sess'[s].term => sessions'[sess'[s].id] # s
       /\ \A c \in Conns :
             /\ (conn[c].path = "none" /\ conn'[c].path = "session" /\ conn'[c].sid # 0)
                    => ~sess[conn'[c].sid].term
             /\ (conn[c].pc = "create" /\ conn'[c].pc = "wait") =>
                    /\ ~sess[conn'[c].sid].used
                    /\ \A s \in SessIdx :
                          sess[s].used => sess[s].pid # sess'[conn'[c].sid].pid]_vars

C9_Witness ==
    \E s1, s2 \in SessIdx, c \in Conns :
        /\ s1 # s2
        /\ sess[s1].term
        /\ sess[s1].pid # 0
        /\ sess[s2].id = sess[s1].id
        /\ Attached(c)
        /\ conn[c].sid = s2
        /\ conn[c].src = sess[s2].pid
        /\ conn[c].src # sess[s1].pid

\* C10: a Start of a TTY with an empty id, or of anything when screen is
\* not on PATH, runs the plain command: it creates no session object and no
\* map entry, starts no heartbeat, shows its own process's output, and two
\* such transports run different processes.
C10_DirectStartsAreSeparate ==
    /\ sessions[""] = 0
    /\ ~hasScreen => (nsess = 0 /\ \A i \in Ids : sessions[i] = 0)
    /\ \A c \in Conns :
          /\ (conn[c].path # "none" /\ (conn[c].cmd.id = "" \/ ~hasScreen))
                => conn[c].path = "direct"
          /\ conn[c].path = "direct" =>
                /\ conn[c].sid = 0
                /\ ~conn[c].hb
                /\ conn[c].src = conn[c].proc
                /\ \A s \in SessIdx : sess[s].creator # c
    /\ \A c1, c2 \in Conns :
          (/\ c1 # c2
           /\ conn[c1].path = "direct" /\ conn[c1].proc # 0
           /\ conn[c2].path = "direct" /\ conn[c2].proc # 0)
          => /\ conn[c1].proc # conn[c2].proc
             /\ conn[c1].src # conn[c2].src

C10_Witness ==
    \E c1, c2 \in Conns :
        /\ c1 # c2
        /\ conn[c1].path = "direct" /\ conn[c1].cout # "off" /\ conn[c1].cmd.id = ""
        /\ conn[c2].path = "direct" /\ conn[c2].cout # "off" /\ conn[c2].cmd.id # ""

\* C8: the timer closes a Ready session only when no heartbeat is running
\* and a full session timeout has passed since the session became Ready or
\* a heartbeat last ran; and while a heartbeat runs on a Ready session the
\* timer is armed and not due.
C8_TimerClosesIdleSession ==
    [][/\ (state = StateReady /\ state' = StateClosing /\ cause' = "timer") =>
             /\ Attachers = {}
             /\ idle >= SessionTimeout
       /\ (state' = StateReady /\ Attachers' # {}) =>
             /\ timer'.st = "armed"
             /\ timer'.rem > 0]_vars

C8_Witness ==
    \E c1, c2 \in Conns :
        /\ c1 # c2
        /\ attach[c1].pc = "left"
        /\ attach[c2].pc = "left"
        /\ cause = "timer"
        /\ error = "nil"
        /\ state = StateClosing
        /\ timer.st = "fired"
        /\ idle = SessionTimeout

\* C11 (as claimed): a transport whose Start targeted a session whose
\* creation or probe failed, and which is past the wait for the session,
\* has returned an error and runs no attach command and no heartbeat.
C11_FailureSeenByAll ==
    \A c \in Conns :
        (/\ conn[c].path = "session"
         /\ conn[c].sid # 0
         /\ sess[conn[c].sid].failed
         /\ conn[c].pc \notin {"create", "wait"})
        => /\ conn[c].ret = "error"
           /\ conn[c].proc = 0
           /\ ~conn[c].hb

\* C12: every Attach call that waits for Ready eventually returns, also
\* when no probe is ever acknowledged; it returns the attach command only
\* from a Ready session and an error only from a Closing or Done one.
C12_AttachReturns ==
    /\ \A c \in Conns :
          (attach[c].pc = "wait") ~> (attach[c].pc \in {"start", "failed"})
    /\ [][\A c \in Conns :
             /\ (attach[c].pc = "wait" /\ attach'[c].pc = "start") => state = StateReady
             /\ (attach[c].pc = "wait" /\ attach'[c].pc = "failed") => state >= StateClosing
         ]_vars

C12_Witness ==
    \E c \in Conns :
        /\ attach[c].pc = "failed"
        /\ lifecycle = "waitReady"
        /\ cause = "timer"
        /\ state = StateClosing

\* C13: a step in which the heartbeat of one attach ends leaves the
\* session's state and error as they were, leaves every other transport's
\* Attach call and heartbeat as they were, and leaves the timer armed with
\* the full timeout.
C13_AttachEndIsLocal ==
    [][\A c \in Conns :
          (attach[c].pc = "live" /\ attach'[c].pc = "left") =>
              /\ state' = state
              /\ error' = error
              /\ process' = process
              /\ ctxDone' = ctxDone
              /\ \A d \in Conns \ {c} : attach'[d] = attach[d]
              /\ timer' = TimerArm(SessionTimeout)]_vars

C13_Witness ==
    \E c, d \in Conns :
        /\ c # d
        /\ attach[c].pc = "left"
        /\ attach[d].pc = "live"
        /\ attach[d].hbRem = 0
        /\ state = StateReady
        /\ error = "nil"

\* Byte string b contains byte r.
Contains(b, r) == \E i \in 1..Len(b) : b[i] = r

\* C14: for a header without a delimiter byte and any body, splitting the
\* message the header writer produced returns the same header and the same
\* body bytes, also for an empty body and for a body with delimiter bytes.
C14_FrameRoundTrip ==
    (got.set /\ ~Contains(sent.header, delimiter)) =>
        /\ got.header = sent.header
        /\ got.body = sent.body
        /\ wire = (sent.header \o <<delimiter>>) \o sent.body

C14_Witness ==
    /\ got.set
    /\ Len(sent.header) = MaxHeader
    /\ ~Contains(sent.header, delimiter)
    /\ Len(sent.body) = MaxBody
    /\ sent.body[1] = delimiter
    /\ got.body = sent.body

\* C15 (as claimed): every frame written by remoteStdin.Write, header and
\* delimiter included, is at most maxMessageSize bytes.
C15_FrameWithinLimit ==
    \A i \in 1..Len(stdinWire) : FrameSize(stdinWire[i]) <= maxMessageSize

\* C16: the frames written by one remoteStdin.Write all carry the stdin
\* header and their bodies are consecutive pieces of the input starting at
\* its first byte; when the call returns without error the pieces end at
\* the last byte and the returned count is the input length.
C16_BodiesAreTheInput ==
    /\ \A i \in 1..Len(stdinWire) :
          /\ stdinWire[i].header = stdinHeaderByt
          /\ stdinWire[i].from = (IF i = 1 THEN 0 ELSE stdinWire[i - 1].to)
          /\ stdinWire[i].from <= stdinWire[i].to
          /\ stdinWire[i].to <= rstdin.len
    /\ rstdin.nn = (IF stdinWire = <<>> THEN 0 ELSE stdinWire[Len(stdinWire)].to)
    /\ (rstdin.pc = "done" /\ ~rstdin.err) =>
          /\ stdinWire # <<>>
          /\ stdinWire[Len(stdinWire)].to = rstdin.len
          /\ rstdin.nn = rstdin.len

C16_Witness ==
    /\ rstdin.pc = "done"
    /\ ~rstdin.err
    /\ Len(stdinWire) = 3
    /\ rstdin.len > 2 * maxMessageSize

\* C17 (as claimed): for a command started with Stdin false, by either
\* execer and with or without a TTY, no byte has reached the process and
\* every Write to Stdin() so far failed with the stdin-disabled error.
C17_DisabledStdinRejects ==
    (started.on /\ ~started.stdin) =>
        /\ reached = 0
        /\ writeErr \in {"none", "disabled"}

\* b is the first Len(b) bytes of a.
IsPrefix(b, a) == Len(b) <= Len(a) /\ b = SubSeq(a, 1, Len(b))

\* C18: the bytes delivered to the process's standard input are the first
\* bytes the client wrote, in the order written; no byte written after the
\* client's Close is delivered; and the input is closed only when every
\* byte written before the Close has been delivered.
C18_StdinInOrder ==
    /\ IsPrefix(pin, SubSeq(InStream, 1, cn))
    /\ closeAt # -1 => Len(pin) <= closeAt
    /\ pinClosed => (closeAt # -1 /\ Len(pin) = closeAt)

C18_Witness ==
    /\ pinClosed
    /\ pin = InStream
    /\ ~serveRet

\* C19: the bytes written to the client's stdout pipe are the first bytes
\* the process wrote to stdout, in order, and likewise for stderr.
C19_OutputInOrder ==
    \A st \in Streams : IsPrefix(cread[st], SubSeq(OutStream(st), 1, pr[st]))

C19_Witness ==
    /\ \A st \in Streams : cread[st] = OutStream(st)
    /\ s2c = <<>>

\* C20: an exit_code frame carries code 0 and no error when Wait returned
\* nil, the ExitError's code when Wait returned an ExitError, and code 0
\* with the error's message when Wait returned any other error.
C20_ExitCodeValue ==
    \A c \in Conns : \A i \in 1..Len(frames[c]) :
        frames[c][i].t = "exit_code" =>
            LET f == frames[c][i]
                w == conn[c].werr
            IN  /\ w.kind \in {"nil", "exit", "other"}
                /\ w.kind = "nil" => (f.code = 0 /\ f.error = "")
                /\ w.kind = "exit" => f.code = w.code
                /\ w.kind = "other" => (f.code = 0 /\ f.error = w.msg /\ f.error # "")

C20_Witness ==
    \E c \in Conns :
        /\ frames[c] # <<>>
        /\ frames[c][Len(frames[c])].t = "exit_code"
        /\ frames[c][Len(frames[c])].code = 2
        /\ conn[c].werr.kind = "exit"

\* C21 (as claimed): a transport whose execer.Start failed has been sent an
\* exit_code frame with code 0 and the failure message in the error field
\* before Serve returned.
C21_SpawnFailureReported ==
    \A c \in Conns :
        (conn[c].pc = "ret" /\ conn[c].why = "spawn") =>
            \E i \in 1..Len(frames[c]) :
                /\ frames[c][i].t = "exit_code"
                /\ frames[c][i].code = 0
                /\ frames[c][i].error # ""

\* C22: once listen has finished, a read error or an exit code has been
\* recorded; and a Wait that has returned returned the read error if one
\* was recorded, else an ExitError with the received code if it is not
\* zero, else nil, never having read an unset exit code.
C22_WaitResult ==
    /\ rp.done => (rp.readErr # "nil" \/ rp.exitSet)
    /\ rp.wait = "ret" =>
          /\ rp.done
          /\ rp.waitRes.kind # "panic"
          /\ rp.readErr # "nil" =>
                (rp.waitRes.kind = "other" /\ rp.waitRes.msg = rp.readErr)
          /\ (rp.readErr = "nil" /\ rp.exitCode # 0) =>
                (rp.waitRes.kind = "exit" /\ rp.waitRes.code = rp.exitCode)
          /\ (rp.readErr = "nil" /\ rp.exitCode = 0) => rp.waitRes.kind = "nil"

C22_Witness ==
    /\ rp.wait = "ret"
    /\ rp.waitRes.kind = "exit"
    /\ rp.waitRes.code = 2
    /\ rsrv.werr.kind = "exit"

\* C23: a Close call on a started remote process always returns.
C23_CloseReturns == (rp.close = "called") ~> (rp.close = "ret")

C23_Witness ==
    /\ rp.close = "ret"
    /\ rp.dropped > 0
    /\ rout["stdout"] # <<>>

\* C24 (as claimed): when Wait has returned on a process the server really
\* started, without a read error on the client, the caller has read every
\* byte the process wrote to each stream and Wait returned what the
\* process's own Wait returned: nil, an ExitError with the same code, or
\* another error.
C24_RemoteMatchesLocal ==
    (rp.wait = "ret" /\ rp.readErr = "nil" /\ rsrv.first = "pid") =>
        /\ \A st \in Streams : rout[st] = SubSeq(OutStream(st), 1, rsrv.pn[st])
        /\ rp.waitRes.kind = rsrv.werr.kind
        /\ rp.waitRes.code = rsrv.werr.code

\* C27 (as claimed): Start has succeeded only if the first frame the client
\* read was a pid frame.
C27_StartNeedsPid == rp.start = "ok" => rsrv.first = "pid"

\* C28 (as claimed): a step in which Serve reads a message whose header
\* names none of start, stdin, close_stdin and resize (an unknown type, or
\* no type at all) changes nothing of the transport's state but the count
\* of messages read and the header last decoded, and Serve is reading
\* again; a step in which listen reads a frame of an unknown type changes
\* nothing of the remote process.
C28_UnknownTypeIgnored ==
    [][/\ \A c \in Conns, m \in Msgs, ok \in BOOLEAN :
            (m.type \in {"other", "none"} /\ ServeRead(c, m, ok)) =>
                /\ conn'[c] = [conn[c] EXCEPT !.nread = conn'[c].nread,
                                              !.hdr = conn'[c].hdr]
                /\ conn'[c].pc = "read"
                /\ frames'[c] = frames[c]
       /\ (ListenRead /\ ~rp.cancelled /\ rconn # <<>> /\ Head(rconn).t = "other") =>
                rp' = [rp EXCEPT !.ignored = rp'.ignored]]_vars

\* C25 (as claimed): after a Resize call on a process without a pty, for
\* any rows and cols, zero included, the call has returned success and the
\* window is what it was.
C25_ResizeWithoutPty ==
    (started.on /\ started.execer = "local" /\ ~started.tty /\ winsize.res # "none") =>
        /\ winsize.res = "nil"
        /\ winsize.rows = 0
        /\ winsize.cols = 0

\* C26 (as claimed): once the transport of a directly started process is
\* closed, or Serve's context is cancelled by the caller, the process is
\* eventually dead and Serve has returned.
C26_DirectProcessKilled ==
    (conn[1].path = "direct" /\ conn[1].proc # 0
        /\ (~conn[1].open \/ conn[1].cancelled))
    ~> (conn[1].pc = "ret" /\ ~conn[1].palive)

\* C29 (as claimed): when CombinedOutput has returned for a command that
\* started, what it returned holds, for each stream, every byte the command
\* wrote to it before exiting, in order, and its error is what the
\* command's Wait returned.
C29_CombinedOutputComplete ==
    (comb.pc = "ret" /\ comb.werr.kind # "none") =>
        /\ \A st \in Streams :
              BytesOf(comb.out, st) = SubSeq(OutStream(st), 1, comb.written[st])
        /\ comb.err = comb.werr

C31_LookupOrInsertAtomic ==
    [][/\ \A c \in Conns :
             (conn[c].pc = "create" /\ conn'[c].pc # "create")
                 => sessions[conn[c].cmd.id] = 0
       /\ \A s1, s2 \in SessIdx :
             (/\ s1 # s2
              /\ sess'[s1].used /\ sess'[s2].used
              /\ sess'[s1].id = sess'[s2].id
              /\ sess'[s1].alive /\ sess'[s2].alive)
             => (sess'[s1].term \/ sess'[s1].ctxDone
                 \/ sess'[s2].term \/ sess'[s2].ctxDone)]_vars

\* C32: the state of a session only moves forward through Starting, Ready,
\* Closing, Done: no step of the lifecycle, the timer, Close or the process
\* exit lowers it; a setState that does not raise the state leaves the state
\* and the error as they were; and Close on a session that is already Done
\* changes nothing of the session.
C32_StateMovesForward ==
    [][/\ state' >= state
       /\ state' \in {StateStarting, StateReady, StateClosing, StateDone}
       /\ (state' = state) => (error' = error)
       /\ (closeCall.pc = "idle" /\ closeCall'.pc = "wait" /\ state = StateDone) =>
             /\ state' = StateDone
             /\ error' = error
             /\ timer' = timer
             /\ process' = process
             /\ ctxDone' = ctxDone]_vars

C32_Witness ==
    /\ closeCall.pc = "ret"
    /\ closeCall.found = StateDone
    /\ state = StateDone
    /\ error = "exit"
    /\ cause = "exit"

\* C33: once a session has recorded an error, no step overwrites or clears
\* it, and an Attach that fails on the Closing or Done session from then on
\* returns that error; an Attach that fails while no error is recorded
\* returns "session is closing" or "session is done".
C33_FirstErrorKept ==
    [][/\ (error # "nil") => (error' = error)
       /\ \A c \in Conns :
             (attach[c].pc = "wait" /\ attach'[c].pc = "failed") =>
                 /\ state >= StateClosing
                 /\ (error # "nil") => (attach'[c].err = error)
                 /\ (error = "nil") =>
                        attach'[c].err \in {"session is closing", "session is done"}
       /\ \A c \in Conns :
             (attach[c].pc = "failed") => (attach'[c] = attach[c])]_vars

C33_Witness ==
    \E c1, c2 \in Conns :
        /\ c1 # c2
        /\ attach[c1].pc = "failed"
        /\ attach[c1].err = "wait"
        /\ attach[c2].pc = "failed"
        /\ attach[c2].err = "wait"
        /\ error = "wait"
        /\ state = StateDone
        /\ process = "exited"

\* The probe of session object s has succeeded: the probe goroutine closed
\* the ready channel without sending an error.
ProbeSucceeded(s) == sess[s].used /\ sess[s].closed /\ ~sess[s].probe /\ ~sess[s].failed

\* C34 (as claimed): a Start obtains the attach command of a session only
\* after a probe command against that session has succeeded.
C34_AttachNeedsProbe ==
    [][\A c \in Conns :
          (conn[c].pc = "wait" /\ conn'[c].pc = "attach")
              => ProbeSucceeded(conn[c].sid)]_vars

\* C35 (as claimed): at any moment at most one transport is starting the
\* attach command of a given session.
C35_AttachesSerialised ==
    \A c1, c2 \in Conns :
        (/\ c1 # c2
         /\ conn[c1].pc = "attach"
         /\ conn[c2].pc = "attach")
        => conn[c1].sid # conn[c2].sid

\* C36 (as claimed): no Start is handed the attach command of a session
\* whose inactivity timer has fired, and no transport starts that attach
\* command on it; a Start that is not past the wait for the session when the
\* timer fires ends on another session or with an error.
C36_NoAttachToClosing ==
    [][\A c \in Conns :
          /\ (conn[c].pc = "wait" /\ conn'[c].pc = "attach")
                => ~sess[conn[c].sid].term
          /\ (conn[c].pc = "attach" /\ conn'[c].proc # 0)
                => ~sess[conn[c].sid].term]_vars

C38_DispatchOnOwnType ==
    [][\A c \in Conns, m \in Msgs, ok \in BOOLEAN :
          (m.type # "malformed" /\ ServeRead(c, m, ok)) =>
              /\ (m.type # "none") => (conn'[c].hdr = m.type)
              /\ (m.type = "none") =>
                    /\ conn'[c].pc = "read"
                    /\ conn'[c].ret = ""
                    /\ conn'[c].proc = conn[c].proc
                    /\ conn'[c].ops = conn[c].ops
                    /\ frames'[c] = frames[c]]_vars

\* C39 (as claimed): once the context of an attach has ended, the
\* waitForStateOrContext call of that attach returns, also when the state
\* of the session never changes again.
C39_WaiterReturns ==
    \A c \in Conns : watch[c].ctxDone ~> (watch[c].pc = "ret")

\* The creation of session object s failed: execer.Start of its screen
\* process returned an error and createSession returned it.
CreationFailed(s) == sess[s].used /\ sess[s].pid = 0 /\ conn[sess[s].creator].pc = "ret"

\* C40 (as claimed): a Start that looks its id up after the creation of a
\* session with that id has failed, and the failing Start has returned, does
\* not find that session in the map: it goes on to create a fresh one.
C40_FailedSessionRemoved ==
    [][\A c \in Conns :
          (conn[c].path = "none" /\ conn'[c].path = "session") =>
              /\ (conn'[c].sid # 0) => ~CreationFailed(conn'[c].sid)
              /\ (\E s \in SessIdx : CreationFailed(s) /\ sess[s].id = conn'[c].cmd.id)
                    => conn'[c].pc = "create"]_vars

====
